---- MODULE Spec2Model ----
(***************************************************************************)
(* State-machine model of aioxiaomi: the device registry (class bulbs of   *)
(* __main__.py), the device session (class XiaomiBulb of aioxiaomi.py),    *)
(* its outbound connections (XiaomiConnect), its message queue (Queue)     *)
(* and its drain coroutine (try_sending).                                  *)
(*                                                                         *)
(* Every object is a record: registry is the bulbs instance, bulb[s] is    *)
(* the XiaomiBulb instance s together with the event-loop state that       *)
(* belongs to it (connection attempts in flight, open sockets, coroutine   *)
(* frames, callbacks scheduled with call_soon) and the observation logs.   *)
(* Handlers are pure operators on a world W = [s, self, reg]: the session  *)
(* id, the session record and the registry record; an action applies one   *)
(* handler, with all the calls it makes, and commits the result.           *)
(*                                                                         *)
(* Time is abstracted: a sleep or a bounded wait may end at any later      *)
(* step, and a connection counts as written less than 1 s ago whenever it  *)
(* has been written before.                                                *)
(***************************************************************************)
EXTENDS Integers, Sequences, FiniteSets, TLC

VARIABLES registry, bulb, upnp

vars == <<registry, bulb, upnp>>

\* ------------------------------------------------------------------ bounds
MaxSessions == 3     \* XiaomiBulb objects the registry may create
MaxIdentities == 2   \* distinct device identities that answer discovery
MaxNb == 5           \* largest connection count given by the application
MaxTnb == 2          \* largest connection count in the delivery scenarios
MaxCmds == 3         \* send_msg calls per session
MaxAttemptsArg == 2  \* largest max_attempts argument
MaxLimit == 2        \* largest queue limit configured
MaxTasks == 2        \* coroutine frames available to a session
MaxHandoffs == 1     \* set_music("start") handoffs per session
MaxReplies == 4      \* discovery replies handed to new_bulb
MaxCalls == 2        \* command-method calls of a session
MaxMusicCmds == 2    \* send_msg calls in the direct-stream scenario
MaxDatagram == 5     \* bytes of a discovery datagram
MaxDatagrams == 1    \* datagrams handed to the listener
MaxNotes == 2        \* notifications a session receives
MaxQueue == 4        \* entries put into a queue object
MaxEntry == 3        \* distinct entries put
MaxTrim == 5         \* largest argument of trim
MaxRestarts == 2     \* handoffs started in the restart scenario
MaxTime == 3         \* units of time the clock counts

\* ------------------------------------------------------- program constants
MESSAGE_WINDOW == 256
DEFAULT_ATTEMPTS == 1
MAX_TRANSPORTS == 4
NEW_BULB_CONNECTIONS == 2
NEW_BULB_QUEUE_LIMIT == 5

Sessions == 1..MaxSessions
Identities == 1..MaxIdentities
TaskIds == 1..MaxTasks
Policies == {"drop", "head", "random", "adapt"}

Max2(a, b) == IF a >= b THEN a ELSE b
Min2(a, b) == IF a <= b THEN a ELSE b

\* del(list[i]) with i counted from 1
RemoveAt(q, i) == SubSeq(q, 1, i - 1) \o SubSeq(q, i + 1, Len(q))

\* list.remove(x): drops the first element equal to x, if any
RemoveFirst(q, x) ==
  IF \E i \in 1..Len(q) : q[i] = x
  THEN RemoveAt(q, CHOOSE i \in 1..Len(q) : q[i] = x /\ \A j \in 1..(i - 1) : q[j] # x)
  ELSE q

Range(q) == {q[i] : i \in 1..Len(q)}

\* a in b for two Python strings: a is a substring of b
IsSubstring(a, b) ==
  \E i \in 1..(Len(b) - Len(a) + 1) : SubSeq(b, i, i + Len(a) - 1) = a

\* name in self.support: support is the header string, the advertised
\* names separated by blanks, and no name holds a blank
Supports(sup, name) == \E cap \in sup : IsSubstring(name, cap)

\* JSON values of a params list: a string or an integer
JStr(x) == [k |-> "str", s |-> x, n |-> 0]
JInt(i) == [k |-> "int", s |-> "", n |-> i]

\* ------------------------------------------------------------------- Queue
\* get taking the entry put last instead of the oldest one
Queue_get_newest(q) == IF Len(q) > 0 THEN SubSeq(q, 1, Len(q) - 1) ELSE q

\* get returns queue[0] and keeps queue[1:]; an empty queue stays as it is
Queue_get(q) == IF Len(q) > 0 THEN Tail(q) ELSE q
Queue_put(q, x) == Append(q, x)
\* retrieve that takes the last index for one past the end
Queue_retrieve_short(q, idx) == IF idx + 1 < Len(q) THEN RemoveAt(q, idx + 1) ELSE q
Queue_retrieve(q, idx) == IF idx < Len(q) THEN RemoveAt(q, idx + 1) ELSE q
Queue_empty(q) == Len(q) = 0
\* a trim that keeps the oldest entries instead
Queue_trim_oldest(q, length) ==
  IF length = 0 \/ length >= Len(q) THEN q ELSE SubSeq(q, 1, length)
\* self.queue[0-length:] : the last length entries, and everything when
\* length is 0 (the slice [0:])
Queue_trim(q, length) ==
  IF length = 0 \/ length >= Len(q) THEN q
  ELSE SubSeq(q, Len(q) - length + 1, Len(q))

\* ------------------------------------------------------ coroutine frames
NoMsg == [id |-> 0, cb |-> 0]
IdleFrame == [pc |-> "idle", msg |-> NoMsg, attempts |-> 0, myidx |-> 0,
              dodelay |-> 0, max_attempts |-> 0, ev |-> FALSE, h |-> 0,
              wake |-> 0]

\* ------------------------------------------------------------- XiaomiBulb
NoBulb ==
  [exists |-> FALSE, bulb_id |-> 0, support |-> {}, tnb |-> 0,
   activated |-> FALSE, connecting |-> 0, nconn |-> 0, conns |-> {},
   transports |-> <<>>, tidx |-> 0, registered |-> FALSE, seq |-> 0,
   pending_reply |-> <<>>, message_queue |-> <<>>, queue_limit |-> 0,
   queue_policy |-> "drop", is_sending |-> FALSE, musicm |-> [k |-> "False", h |-> 0],
   hand |-> <<>>, soon |-> <<>>, task |-> [t \in TaskIds |-> IdleFrame],
   ncalls |-> 0, dropped |-> {}, stray |-> FALSE, wlog |-> <<>>, cblog |-> <<>>,
   properties |-> [x \in {} |-> ""], body |-> <<>>, ncmds |-> 0,
   cleaned |-> FALSE, timed |-> FALSE, now |-> 0, notes |-> <<>>,
   ndefault |-> 0, asked |-> <<>>]

\* XiaomiBulb.__init__(loop, headers, parent, tnb): headers carry the
\* identity and the capability list
XiaomiBulb_init(id, sup, n) ==
  [NoBulb EXCEPT !.exists = TRUE, !.bulb_id = id, !.support = sup,
                 !.tnb = Max2(1, Min2(MAX_TRANSPORTS, n))]

\* an exception leaves the method: nothing is returned
Raise(W, e) == [W EXCEPT !.exc = e]

\* self.properties as __init__ fills it from the headers
WithHeaders(b, props) == [b EXCEPT !.properties = props]

\* ------------------------------------------------ discovery listener
\* A datagram is a sequence of byte values; the ones drawn are CR, LF, the
\* colon, the blank, "A", "a" and one byte that is not ASCII.
Bytes == {13, 10, 58, 32, 65, 97, 233}
Datagrams == UNION {[1..n -> Bytes] : n \in 0..MaxDatagram}

\* XiaomiUPnP after __init__; last is the datagram received last, handled
\* the list of header maps passed to self.handler, exc the exception that
\* left the last datagram_received
XiaomiUPnP_init ==
  [clients |-> {}, broadcast_cnt |-> 0, received |-> 0, last |-> <<>>,
   handled |-> <<>>, exc |-> ""]

\* data.decode("ascii") succeeds
Decodable(data) == \A i \in 1..Len(data) : data[i] < 128

\* str.split("\r\n")
FirstCRLF(str) ==
  LET at == {i \in 1..(Len(str) - 1) : str[i] = 13 /\ str[i + 1] = 10}
  IN IF at = {} THEN 0 ELSE CHOOSE i \in at : \A j \in at : i <= j
RECURSIVE SplitLines(_)
SplitLines(str) ==
  LET i == FirstCRLF(str)
  IN IF i = 0 THEN <<str>>
     ELSE <<SubSeq(str, 1, i - 1)>> \o SplitLines(SubSeq(str, i + 2, Len(str)))

\* line.split(":", 1): the position of the first colon, 0 when none
FirstColon(line) ==
  LET at == {i \in 1..Len(line) : line[i] = 58}
  IN IF at = {} THEN 0 ELSE CHOOSE i \in at : \A j \in at : i <= j

\* str.lower() and str.strip() on ASCII text
Lower(str) == [i \in 1..Len(str) |-> IF str[i] \in 65..90 THEN str[i] + 32 ELSE str[i]]
Whitespace == {9, 10, 11, 12, 13, 28, 29, 30, 31, 32}
RECURSIVE Strip(_)
Strip(str) ==
  IF str = <<>> THEN str
  ELSE IF Head(str) \in Whitespace THEN Strip(Tail(str))
  ELSE IF str[Len(str)] \in Whitespace THEN Strip(SubSeq(str, 1, Len(str) - 1))
  ELSE str

\* the loop over the lines: a line without a colon raises in the unpacking
\* and is passed over
RECURSIVE ParseHeaders(_, _)
ParseHeaders(lines, headers) ==
  IF lines = <<>> THEN headers
  ELSE LET line == Head(lines)
           c == FirstColon(line)
           key == Lower(SubSeq(line, 1, c - 1))
           value == Strip(SubSeq(line, c + 1, Len(line)))
       IN IF c = 0 THEN ParseHeaders(Tail(lines), headers)
          ELSE ParseHeaders(Tail(lines),
                 [k \in (DOMAIN headers) \cup {key} |->
                    IF k = key THEN value ELSE headers[k]])

XiaomiUPnP_datagram_received(u, data) ==
  LET u1 == [u EXCEPT !.received = @ + 1, !.last = data, !.exc = ""]
  IN IF ~Decodable(data)
     THEN [u1 EXCEPT !.exc = "UnicodeDecodeError"]
     ELSE [u1 EXCEPT !.handled = Append(@, ParseHeaders(SplitLines(data), <<>>))]

\* ------------------------------------------------------ registry (bulbs)
\* key of bulbs.sort: x.name or str(x.bulb_id); the devices are unnamed
SortKey(x) == bulb[x].bulb_id

\* append followed by the stable sort of a list that was sorted before
SortedAppend(q, x) ==
  LET Before(y) == SortKey(y) <= SortKey(x)
      After(y) == SortKey(y) > SortKey(x)
  IN SelectSeq(q, Before) \o <<x>> \o SelectSeq(q, After)

\* bulbs.__init__; replies counts the calls of new_bulb
bulbs_init == [bulbs |-> <<>>, pending_bulbs |-> <<>>, replies |-> 0]

\* register without the removal from pending_bulbs
bulbs_register_keep(reg, s) ==
  [reg EXCEPT !.bulbs = SortedAppend(reg.bulbs, s)]

bulbs_register(reg, s) ==
  [reg EXCEPT !.bulbs = SortedAppend(reg.bulbs, s),
              !.pending_bulbs = RemoveFirst(reg.pending_bulbs, s)]

bulbs_unregister(reg, s) ==
  LET Hit(i) == bulb[reg.bulbs[i]].bulb_id = bulb[s].bulb_id
  IN IF \E i \in 1..Len(reg.bulbs) : Hit(i)
     THEN [reg EXCEPT !.bulbs =
             RemoveAt(@, CHOOSE i \in 1..Len(reg.bulbs) :
                            Hit(i) /\ \A j \in 1..(i - 1) : ~Hit(j))]
     ELSE reg

\* --------------------------------------------- XiaomiBulb management
XiaomiBulb_register(W, c) ==
  LET W1 == [W EXCEPT !.self.transports = Append(@, c)]
  IN IF ~W.self.registered
     THEN [W1 EXCEPT !.self.registered = TRUE,
                     !.reg = bulbs_register(W.reg, W.s)]
     ELSE W1

\* unregister that never clears the registered flag
XiaomiBulb_unregister_keepflag(W, c) ==
  [W EXCEPT !.self.transports = RemoveFirst(@, c)]

XiaomiBulb_unregister(W, c) ==
  LET W1 == [W EXCEPT !.self.transports = RemoveFirst(@, c)]
  IN IF Len(W1.self.transports) = 0 /\ W1.self.registered
     THEN [W1 EXCEPT !.self.registered = FALSE,
                     !.reg = bulbs_unregister(W.reg, W.s)]
     ELSE W1

\* cleanup(): the loop reads self.tranports, an attribute the object does
\* not have, so the call raises before it closes anything
XiaomiBulb_cleanup(W) == Raise(W, "AttributeError")

XiaomiBulb_set_connections(W, nb) == [W EXCEPT !.self.tnb = nb]

XiaomiBulb_set_queue_limit(W, length, policy) ==
  [W EXCEPT !.self.queue_limit = length, !.self.queue_policy = policy]

\* one create_connection per configured channel; each completes later
XiaomiBulb_activate(W) ==
  [W EXCEPT !.self.activated = TRUE, !.self.connecting = W.self.tnb]

\* ------------------------------------------------------- XiaomiConnect
XiaomiConnect_connection_made(W) ==
  LET c == W.self.nconn + 1
      W1 == [W EXCEPT !.self.connecting = @ - 1, !.self.nconn = c,
                      !.self.conns = @ \cup {c}]
  IN XiaomiBulb_register(W1, c)

XiaomiConnect_connection_lost(W, c) ==
  XiaomiBulb_unregister([W EXCEPT !.self.conns = @ \ {c}], c)

\* ------------------------------------------------- observation logs
\* wlog: a write of message id on pooled connection conn (via "pool" or
\* "noqueue") or on the inbound stream connection of handoff conn (via
\* "music"); n is the length of self.transports at that moment and at the
\* value of the clock, which the write stores in last_sent
Write(W, c, id, via) ==
  [W EXCEPT !.self.wlog = Append(@, [id |-> id, conn |-> c, via |-> via,
                                     n |-> Len(W.self.transports),
                                     at |-> W.self.now])]

\* cblog: the command id is resolved with res = "reply", "ok" (synthesized)
\* or "fail" (None), and callb(...) is called when a callback was given; cb
\* is the token of the send_msg call that passed it, 0 when callb is None
Callb(W, cb, id, res) ==
  [W EXCEPT !.self.cblog = Append(@, [cb |-> cb, id |-> id, res |-> res])]

\* ------------------------------------------------------- pending_reply
\* self.pending_reply[cid] = e
PutReply(pr, cid, e) ==
  [c \in (DOMAIN pr) \cup {cid} |-> IF c = cid THEN e ELSE pr[c]]
\* del(self.pending_reply[cid])
DelReply(pr, cid) == [c \in (DOMAIN pr) \ {cid} |-> pr[c]]

\* ------------------------------------------------------------ seq_next
XiaomiBulb_seq_next(W) == [W EXCEPT !.self.seq = (@ + 1) % MESSAGE_WINDOW]

\* ---------------------------------------------------------- music mode
\* transport.close() of the inbound connection of handoff h: the loop calls
\* connection_lost later
MusicClose(W, h) ==
  IF W.self.hand[h].conn = "open"
  THEN [W EXCEPT !.self.hand[h].conn = "closing"]
  ELSE W

\* music_mode_off that clears the state and closes nothing
XiaomiBulb_music_mode_off_noclose(W) ==
  IF W.self.musicm.k # "False"
  THEN [W EXCEPT !.self.musicm = [k |-> "False", h |-> 0]]
  ELSE W

XiaomiBulb_music_mode_off(W) ==
  LET m == W.self.musicm
      W1 == IF m.k = "Future"
            THEN IF W.self.hand[m.h].fut = "pending"
                 THEN [W EXCEPT !.self.hand[m.h].fut = "cancelled"]
                 ELSE IF W.self.hand[m.h].fut = "result"
                      THEN MusicClose(W, m.h)
                      ELSE W
            ELSE MusicClose(W, m.h)
  IN IF m.k # "False"
     THEN [W1 EXCEPT !.self.musicm = [k |-> "False", h |-> 0]]
     ELSE W

\* set_music whose start does not test self.musicm
XiaomiBulb_set_music_restart(W, action, delay, cb) ==
  IF Supports(W.self.support, "set_music") /\ action = "start"
  THEN [W EXCEPT !.self.hand = Append(@, [fut |-> "pending", conn |-> "none",
                                          autoclose |-> delay, watch |-> FALSE,
                                          last_sent |-> 0, next |-> 0]),
                 !.self.musicm = [k |-> "Future", h |-> Len(W.self.hand) + 1],
                 !.self.soon = Append(@, [p |-> 1, cb |-> cb]),
                 !.ret = TRUE]
  ELSE [W EXCEPT !.ret = FALSE]

\* set_music(action, delay, callb); send_msg_noqueue is scheduled with
\* call_soon and runs in a later step
XiaomiBulb_set_music(W, action, delay, cb) ==
  IF Supports(W.self.support, "set_music")
  THEN IF action = "start" /\ W.self.musicm.k = "False"
       THEN [W EXCEPT !.self.hand = Append(@, [fut |-> "pending", conn |-> "none",
                                               autoclose |-> delay, watch |-> FALSE,
                                          last_sent |-> 0, next |-> 0]),
                      !.self.musicm = [k |-> "Future", h |-> Len(W.self.hand) + 1],
                      !.self.soon = Append(@, [p |-> 1, cb |-> cb]),
                      !.ret = TRUE]
       ELSE IF action = "stop" /\ W.self.musicm.k # "False"
            THEN [XiaomiBulb_music_mode_off(
                    [W EXCEPT !.self.soon = Append(@, [p |-> 0, cb |-> cb])])
                  EXCEPT !.ret = TRUE]
            ELSE [W EXCEPT !.ret = FALSE]
  ELSE [W EXCEPT !.ret = FALSE]

\* send_msg_noqueue(msg, callb), the head of the call_soon queue
XiaomiBulb_send_msg_noqueue(W) ==
  LET call == Head(W.self.soon)
      W1 == XiaomiBulb_seq_next([W EXCEPT !.self.soon = Tail(@)])
      cid == W1.self.seq
      W2 == IF call.cb # 0
            THEN [W1 EXCEPT !.self.pending_reply =
                              PutReply(@, cid, [ev |-> 0, cb |-> call.cb])]
            ELSE W1
  IN IF Len(W2.self.transports) = 0
     THEN W2                                  \* IndexError, logged by the loop
     ELSE Write(W2, W2.self.transports[1], cid, "noqueue")

\* XiaomiMusicConnect.__init__ and connection_made for the server of
\* handoff h: last_sent is the time of the construction, and the watchdog
\* task, when there is one, polls for the first time at once
XiaomiMusicConnect_connection_made(W, h) ==
  LET W1 == [W EXCEPT !.self.hand[h].conn = "open",
                      !.self.hand[h].last_sent = W.self.now]
  IN IF W.self.hand[h].fut = "pending"
     THEN [W1 EXCEPT !.self.hand[h].fut = "result",
                     !.self.hand[h].watch = (W.self.hand[h].autoclose # 0),
                     !.self.hand[h].next = W.self.now]
     ELSE W1                                  \* set_result: InvalidStateError

\* connection_lost that does not call music_mode_off
XiaomiMusicConnect_connection_lost_keepmode(W, h) ==
  [W EXCEPT !.self.hand[h].conn = "closed", !.self.hand[h].watch = FALSE]

XiaomiMusicConnect_connection_lost(W, h) ==
  XiaomiBulb_music_mode_off(
    [W EXCEPT !.self.hand[h].conn = "closed", !.self.hand[h].watch = FALSE])

\* a watchdog that closes at its first poll
XiaomiMusicConnect_autoclose_me_atonce(W, h) ==
  MusicClose([W EXCEPT !.self.hand[h].watch = FALSE], h)

\* one poll of _autoclose_me: close() and return when the connection has
\* been idle for longer than autoclose, sleep(1) otherwise; where the
\* clock is not modelled the poll is the one that finds it idle
XiaomiMusicConnect_autoclose_me(W, h) ==
  IF W.self.timed
     /\ ~(W.self.now - W.self.hand[h].last_sent > W.self.hand[h].autoclose)
  THEN [W EXCEPT !.self.hand[h].next = W.self.now + 1]
  ELSE MusicClose([W EXCEPT !.self.hand[h].watch = FALSE], h)

\* ------------------------------------------------------------ send_msg
FreeTask(b) == CHOOSE t \in TaskIds : b.task[t].pc = "idle"

\* the accepted message: seq_next and put; the callback of call number k
\* (ncalls counts this call already) is the token k
Accept(W, hascb) ==
  LET W1 == XiaomiBulb_seq_next(W)
      k == W.self.ncalls
      msg == [id |-> W1.self.seq, cb |-> IF hascb THEN k ELSE 0]
  IN [W1 EXCEPT !.self.message_queue = Queue_put(@, msg)]

\* send_msg with the test of is_sending left out
XiaomiBulb_send_msg_nocheck(W, hascb, ma, idx) ==
  [Accept([W EXCEPT !.self.ncalls = @ + 1], hascb)
   EXCEPT !.self.is_sending = TRUE,
          !.self.task[FreeTask(W.self)] =
             [IdleFrame EXCEPT !.pc = "start", !.max_attempts = ma]]

\* send_msg whose drop policy queues the message all the same
XiaomiBulb_send_msg_dropput(W, hascb, ma, idx) ==
  LET b == W.self
      W0 == [W EXCEPT !.self.ncalls = @ + 1]
  IN IF b.queue_limit = 0 \/ Len(b.message_queue) < b.queue_limit
     THEN LET W1 == Accept(W0, hascb)
          IN IF ~b.is_sending
             THEN [W1 EXCEPT !.self.is_sending = TRUE,
                             !.self.task[FreeTask(b)] =
                                [IdleFrame EXCEPT !.pc = "start", !.max_attempts = ma]]
             ELSE W1
     ELSE [Accept(W0, hascb) EXCEPT !.self.dropped = @ \cup {b.ncalls + 1}]

\* send_msg(msg, callb, timeout_secs, max_attempts); idx is the draw of
\* randint(0, len(self.message_queue) - 1)
XiaomiBulb_send_msg(W, hascb, ma, idx) ==
  LET b == W.self
      W0 == [W EXCEPT !.self.ncalls = @ + 1]
  IN IF b.queue_limit = 0 \/ Len(b.message_queue) < b.queue_limit
     THEN LET W1 == Accept(W0, hascb)
          IN IF ~b.is_sending
             THEN [W1 EXCEPT !.self.is_sending = TRUE,
                             !.self.task[FreeTask(b)] =
                                [IdleFrame EXCEPT !.pc = "start", !.max_attempts = ma]]
             ELSE W1
     ELSE IF b.queue_limit > 0
          THEN IF b.queue_policy # "drop"
               THEN LET W1 == Accept(W0, hascb)
                    IN IF b.queue_policy = "head"
                       THEN [W1 EXCEPT !.self.message_queue = Queue_get(@)]
                       ELSE IF b.queue_policy = "adapt"
                            THEN XiaomiBulb_set_music(W1, "start", 5, 0)
                            ELSE [W1 EXCEPT !.self.message_queue = Queue_retrieve(@, idx)]
               ELSE [W0 EXCEPT !.self.dropped = @ \cup {b.ncalls + 1}]
          ELSE W0

\* ------------------------------------------------------ command methods
\* One row per command method: cap is the name tested against
\* self.support, power tells whether properties["power"] == "on" is tested
\* first, sends is the method name of the message, and kind selects how the
\* params are built.
CommandTable ==
  [get_prop           |-> [cap |-> "get_prop", power |-> FALSE, sends |-> "get_prop", kind |-> "props"],
   set_temperature    |-> [cap |-> "set_ct_abx", power |-> TRUE, sends |-> "set_ct_abx", kind |-> "effect"],
   set_rgb            |-> [cap |-> "set_rgb", power |-> TRUE, sends |-> "set_rgb", kind |-> "effect"],
   set_hsv            |-> [cap |-> "set_hsv", power |-> TRUE, sends |-> "set_hsv", kind |-> "effect2"],
   set_brightness     |-> [cap |-> "set_bright", power |-> TRUE, sends |-> "set_bright", kind |-> "effect"],
   set_power          |-> [cap |-> "set_power", power |-> FALSE, sends |-> "set_power", kind |-> "power"],
   set_default        |-> [cap |-> "set_default", power |-> FALSE, sends |-> "set_default", kind |-> "none"],
   bg_set_temperature |-> [cap |-> "bg_set_ct_abx", power |-> TRUE, sends |-> "bg_set_ct_abx", kind |-> "effect"],
   bg_set_rgb         |-> [cap |-> "bg_set_rgb", power |-> TRUE, sends |-> "set_rgb", kind |-> "effect"],
   bg_set_hsv         |-> [cap |-> "bg_set_hsv", power |-> TRUE, sends |-> "bg_set_hsv", kind |-> "effect2"],
   toggle             |-> [cap |-> "toggle", power |-> FALSE, sends |-> "toggle", kind |-> "none"],
   bg_toggle          |-> [cap |-> "bg_toggle", power |-> FALSE, sends |-> "bg_toggle", kind |-> "none"],
   dev_toggle         |-> [cap |-> "bg_toggle", power |-> FALSE, sends |-> "bg_toggle", kind |-> "none"],
   start_flow         |-> [cap |-> "start_cf", power |-> TRUE, sends |-> "start_cf", kind |-> "flow"],
   stop_flow          |-> [cap |-> "stop_cf", power |-> FALSE, sends |-> "stop_cf", kind |-> "none"],
   set_rgb_direct     |-> [cap |-> "set_scene", power |-> FALSE, sends |-> "set_scene", kind |-> "color"],
   set_hsv_direct     |-> [cap |-> "set_scene", power |-> FALSE, sends |-> "set_scene", kind |-> "hsv"],
   set_white_direct   |-> [cap |-> "set_scene", power |-> FALSE, sends |-> "set_scene", kind |-> "ct"],
   set_flow_direct    |-> [cap |-> "set_scene", power |-> FALSE, sends |-> "set_scene", kind |-> "cf"],
   set_timed_power    |-> [cap |-> "set_scene", power |-> FALSE, sends |-> "set_scene", kind |-> "auto_delay_off"],
   cron_add           |-> [cap |-> "cron_add", power |-> TRUE, sends |-> "cron_add", kind |-> "cron2"],
   cron_del           |-> [cap |-> "cron_del", power |-> TRUE, sends |-> "cron_del", kind |-> "cron1"],
   cron_get           |-> [cap |-> "cron_get", power |-> TRUE, sends |-> "cron_get", kind |-> "cron1"],
   set_name           |-> [cap |-> "set", power |-> FALSE, sends |-> "set_name", kind |-> "name"]]

CommandMethods == DOMAIN CommandTable

\* the kinds that take effect and duration, and those that look an
\* argument up with list.index
EffectKinds == {"effect", "effect2", "power"}
IndexKinds == {"flow", "cf", "cron1", "cron2"}

\* The arguments of a call: x is the power argument of set_power, n stands
\* for every other value argument, duration is the string "100" when
\* defaulted, mode is set when a mode is passed, ok tells whether the
\* endstate or action argument is one list.index finds.
DefaultArgs ==
  [x |-> "on", n |-> 1, effect |-> "sudden", duration |-> JStr("100"),
   mode |-> FALSE, ok |-> TRUE]

\* max(30, duration) for an integer duration
Duration(a) ==
  IF a.effect = "smooth" THEN JInt(Max2(30, a.duration.n)) ELSE a.duration

\* the "params" list of the message
Params(kind, a) ==
  CASE kind = "effect"  -> <<JInt(a.n), JStr(a.effect), Duration(a)>>
    [] kind = "effect2" -> <<JInt(a.n), JInt(a.n), JStr(a.effect), Duration(a)>>
    [] kind = "power"   -> IF a.mode
                           THEN <<JStr(a.x), JStr(a.effect), Duration(a), JInt(a.n)>>
                           ELSE <<JStr(a.x), JStr(a.effect), Duration(a)>>
    [] kind = "props"   -> <<JStr("power")>>
    [] kind = "flow"    -> <<JInt(a.n), JInt(0), JStr("flex")>>
    [] kind = "color"   -> <<JStr("color"), JInt(a.n), JInt(a.n)>>
    [] kind = "hsv"     -> <<JStr("hsv"), JInt(a.n), JInt(a.n), JInt(a.n)>>
    [] kind = "ct"      -> <<JStr("ct"), JInt(a.n), JInt(a.n)>>
    [] kind = "cf"      -> <<JStr("cf"), JInt(a.n), JInt(0), JStr("flex")>>
    [] kind = "auto_delay_off" -> <<JStr("auto_delay_off"), JInt(a.n), JInt(a.n)>>
    [] kind = "cron2"   -> <<JInt(0), JInt(a.n)>>
    [] kind = "cron1"   -> <<JInt(0)>>
    [] kind = "name"    -> <<JStr("name")>>
    [] OTHER            -> <<>>

\* self.send_msg(msg, callb) of a command method; body keeps the message
\* that got the id
Dispatch(W, m, a, hascb) ==
  LET row == CommandTable[m]
      W1 == XiaomiBulb_send_msg(W, hascb \/ m = "get_prop", DEFAULT_ATTEMPTS, 0)
  IN IF W1.self.seq # W.self.seq
     THEN [W1 EXCEPT !.self.body =
                        PutReply(@, W1.self.seq,
                                 [method |-> row.sends, params |-> Params(row.kind, a)])]
     ELSE W1

\* the command method m called with the arguments a and, when hascb, a
\* callback
XiaomiBulb_command(W, m, a, hascb) ==
  LET row == CommandTable[m]
      b == W.self
  IN IF row.power /\ "power" \notin DOMAIN b.properties
     THEN Raise(W, "KeyError")
     ELSE IF (row.power => b.properties["power"] = "on") /\ Supports(b.support, row.cap)
          THEN LET W1 == IF m = "set_rgb" THEN XiaomiBulb_seq_next(W) ELSE W
               IN IF row.kind \in EffectKinds /\ a.effect = "smooth"
                     /\ a.duration.k = "str"
                  THEN Raise(W1, "TypeError")
                  ELSE IF row.kind \in IndexKinds /\ ~a.ok
                       THEN Raise(W1, "ValueError")
                       ELSE IF m = "set_brightness" /\ a.effect # "smooth"
                            THEN [W1 EXCEPT !.ret = TRUE]
                            ELSE [Dispatch(W1, m, a, hascb) EXCEPT !.ret = TRUE]
          ELSE [W EXCEPT !.ret = FALSE]

\* -------------------------------------------------------- data_received
\* data_received with del(self.pending_reply[cid]) left out
XiaomiBulb_data_received_nodel(W, cid) ==
  IF cid \in DOMAIN W.self.pending_reply
  THEN LET e == W.self.pending_reply[cid]
           W1 == IF e.ev # 0 /\ W.self.task[e.ev].pc \in {"sleep_rate", "wait_reply"}
                 THEN [W EXCEPT !.self.task[e.ev].ev = TRUE]
                 ELSE W
       IN Callb(W1, e.cb, cid, "reply")
  ELSE [W EXCEPT !.self.stray = TRUE]

\* data_received calling the default callback for an id it does not know
XiaomiBulb_data_received_unknown(W, cid) ==
  IF cid \in DOMAIN W.self.pending_reply
  THEN LET e == W.self.pending_reply[cid]
           W1 == IF e.ev # 0 /\ W.self.task[e.ev].pc \in {"sleep_rate", "wait_reply"}
                 THEN [W EXCEPT !.self.task[e.ev].ev = TRUE]
                 ELSE W
           W2 == Callb(W1, e.cb, cid, "reply")
       IN [W2 EXCEPT !.self.pending_reply = DelReply(@, cid), !.ret = TRUE]
  ELSE Callb([W EXCEPT !.self.stray = TRUE], 0, cid, "reply")

\* a reply {"id": cid, "result": ...}
XiaomiBulb_data_received(W, cid) ==
  IF cid \in DOMAIN W.self.pending_reply
  THEN LET e == W.self.pending_reply[cid]
           W1 == IF e.ev # 0 /\ W.self.task[e.ev].pc \in {"sleep_rate", "wait_reply"}
                 THEN [W EXCEPT !.self.task[e.ev].ev = TRUE]
                 ELSE W
           W2 == Callb(W1, e.cb, cid, "reply")
       IN [W2 EXCEPT !.self.pending_reply = DelReply(@, cid), !.ret = TRUE]
  ELSE [W EXCEPT !.self.stray = TRUE]

\* the names of the module constant PROPERTIES
PROPERTIES ==
  {"power", "bg_power", "bright", "bg_bright", "nl_br", "ct", "bg_ct", "rgb",
   "bg_rgb", "hue", "bg_hue", "sat", "bg_sat", "color_mode", "bg_lmode",
   "flowing", "bg_flowing", "flow_params", "bg_flow_params", "music_on",
   "name", "delayoff", "fw_ver", "model", "id"}

\* a line {"method": ..., "params": ...} without an id; isdict tells
\* whether params is a JSON object, params maps its names to their values
NoteNames == {"power", "bright", "foo"}
NoteValues == {"off", "10"}
NoParams == [x \in {} |-> ""]
Notes ==
  {[method |-> "props", isdict |-> TRUE, params |-> p] :
     p \in UNION {[D -> NoteValues] : D \in SUBSET NoteNames}}
  \cup {[method |-> "props", isdict |-> FALSE, params |-> NoParams],
        [method |-> "other", isdict |-> TRUE, params |-> NoParams]}

\* a notification that stores every name it carries
XiaomiBulb_data_received_note_all(W, note) ==
  [W EXCEPT !.self.properties =
              [x \in (DOMAIN @) \cup (DOMAIN note.params) |->
                 IF x \in DOMAIN note.params THEN note.params[x] ELSE @[x]],
            !.self.ndefault = @ + 1]

\* data_received for such a line: the values are stored as they come;
\* params.items() raises when params is not an object and the except
\* clause swallows it before default_callb is reached; ndefault counts the
\* calls of default_callb
XiaomiBulb_data_received_note(W, note) ==
  IF note.method = "props"
  THEN IF note.isdict
       THEN LET new == (DOMAIN note.params) \cap PROPERTIES
            IN [W EXCEPT !.self.properties =
                           [x \in (DOMAIN @) \cup new |->
                              IF x \in new THEN note.params[x] ELSE @[x]],
                         !.self.ndefault = @ + 1]
       ELSE W
  ELSE [W EXCEPT !.self.ndefault = @ + 1]

\* ---------------------------------------------------------- try_sending
\* The coroutine runs from one await to the next in one step.  Its frame t
\* holds the locals: msg (callb and msg), attempts, myidx, dodelay,
\* max_attempts, ev (the Event of the current attempt is set) and h (the
\* handoff whose Future it awaits).  recent tells whether the connection
\* selected for a write was written less than 1 s ago.
Frame(W, t) == W.self.task[t]
Suspend(W, t, pc) == [W EXCEPT !.self.task[t].pc = pc]
\* an exception leaves the coroutine: the task ends, is_sending is not reset
Crash(W, t) == Suspend(W, t, "crashed")
\* self.is_sending = False, then the coroutine returns
Finish(W, t) == [W EXCEPT !.self.is_sending = FALSE, !.self.task[t] = IdleFrame]

WrittenBefore(W, c) ==
  \E i \in 1..Len(W.self.wlog) :
     W.self.wlog[i].conn = c /\ W.self.wlog[i].via # "music"

\* now - self.transports[myidx].last_sent < mydelta: where the clock is
\* modelled (time counted in whole units of mydelta) the connection was
\* written at the present value of the clock, last_sent being 2 s before
\* the creation of the connection until its first write; elsewhere the
\* outcome is the free choice recent for a connection written before
Recently(W, c, recent) ==
  IF W.self.timed
  THEN \E i \in 1..Len(W.self.wlog) :
          /\ W.self.wlog[i].conn = c /\ W.self.wlog[i].via # "music"
          /\ W.self.wlog[i].at = W.self.now
  ELSE recent /\ WrittenBefore(W, c)

\* self.transports[myidx].write(...), then wait_for(event.wait(), timeout_secs)
PoolWrite(W, t) ==
  LET f == Frame(W, t)
  IN IF f.myidx >= Len(W.self.transports)
     THEN Crash(W, t)                                         \* IndexError
     ELSE Suspend(Write(W, W.self.transports[f.myidx + 1], f.msg.id, "pool"),
                  t, "wait_reply")

\* one turn of the attempts loop, up to its first await
Attempt(W, t, recent) ==
  LET f == Frame(W, t)
      n == Len(W.self.transports)
      myidx == W.self.tidx
      W1 == [W EXCEPT !.self.pending_reply =
                         PutReply(@, f.msg.id, [ev |-> t, cb |-> f.msg.cb]),
                      !.self.task[t].attempts = @ + 1,
                      !.self.task[t].ev = FALSE,
                      !.self.task[t].myidx = myidx]
  IN IF n = 0
     THEN Crash(W1, t)                                 \* ZeroDivisionError
     ELSE LET W2 == [W1 EXCEPT !.self.tidx = (myidx + 1) % n]
          IN IF myidx >= n
             THEN Crash(W2, t)                                \* IndexError
             ELSE IF Recently(W, W.self.transports[myidx + 1], recent)
                  THEN Suspend([W2 EXCEPT !.self.task[t].wake =
                                             IF W.self.timed THEN W.self.now + 1 ELSE 0],
                               t, "sleep_rate")
                  ELSE PoolWrite(W2, t)

\* a music write that also stores the command in pending_reply
MusicSend_correlated(W, m) ==
  [Callb(Write(W, W.self.musicm.h, m.id, "music"), m.cb, m.id, "ok")
   EXCEPT !.self.pending_reply = PutReply(@, m.id, [ev |-> 0, cb |-> m.cb]),
          !.self.hand[W.self.musicm.h].last_sent = W.self.now]

\* self.musicm.write(...) and the synthesized reply, for one message
MusicSend(W, m) ==
  [Callb(Write(W, W.self.musicm.h, m.id, "music"), m.cb, m.id, "ok")
   EXCEPT !.self.hand[W.self.musicm.h].last_sent = W.self.now]

RECURSIVE MusicSendAll(_, _)
MusicSendAll(W, q) ==
  IF q = <<>> THEN W ELSE MusicSendAll(MusicSend(W, Head(q)), Tail(q))

\* active music mode: the popped message and, with no await in between,
\* every message still queued; then sleep(0.1)
MusicDeliver(W, t) ==
  LET W1 == MusicSendAll(W, <<Frame(W, t).msg>> \o W.self.message_queue)
  IN Suspend([W1 EXCEPT !.self.message_queue = <<>>,
                        !.self.task[t].msg = NoMsg], t, "sleep_music")

\* the head of the while loop: the test, the pop and the branch taken
LoopHead(W, t, recent) ==
  IF Queue_empty(W.self.message_queue)
  THEN Finish(W, t)
  ELSE LET W1 == [W EXCEPT !.self.message_queue = Queue_get(@),
                           !.self.task[t].msg = Head(W.self.message_queue),
                           !.self.task[t].attempts = 0,
                           !.self.task[t].myidx = 0,
                           !.self.task[t].ev = FALSE]
       IN IF W.self.musicm.k = "Future"
          THEN Suspend([W1 EXCEPT !.self.task[t].h = W.self.musicm.h], t, "wait_music")
          ELSE IF W.self.musicm.k = "Conn"
               THEN MusicDeliver(W1, t)
               ELSE Attempt(W1, t, recent)

\* the first run of the coroutine
Start(W, t, recent) ==
  LoopHead([W EXCEPT !.self.task[t].dodelay = Len(W.self.transports) - 1], t, recent)

\* the except branch of the music wait: the popped message is given up
MusicFailed(W, t, recent) ==
  LoopHead([W EXCEPT !.self.musicm = [k |-> "False", h |-> 0],
                     !.self.message_queue = Queue_trim(@, W.self.queue_limit),
                     !.self.task[t].msg = NoMsg,
                     !.self.task[t].h = 0], t, recent)

\* wait_for(self.musicm, 2) is over because the awaited Future is done
MusicAwaited(W, t, recent) ==
  LET m == W.self.musicm
  IN IF W.self.hand[Frame(W, t).h].fut = "result"
        /\ m.k = "Future" /\ W.self.hand[m.h].fut = "result"
     THEN MusicDeliver([W EXCEPT !.self.musicm = [k |-> "Conn", h |-> m.h],
                                 !.self.task[t].h = 0], t)
     ELSE MusicFailed(W, t, recent)

\* wait_for(self.musicm, 2) times out and cancels the Future
MusicTimeout(W, t, recent) ==
  MusicFailed([W EXCEPT !.self.hand[Frame(W, t).h].fut = "cancelled"], t, recent)

\* after the attempts loop: the spreading delay, or the next message
PostEntry(W, t, recent) ==
  LET W1 == [W EXCEPT !.self.task[t].msg = NoMsg,
                      !.self.task[t].attempts = 0,
                      !.self.task[t].myidx = 0,
                      !.self.task[t].ev = FALSE]
  IN IF Frame(W, t).dodelay # 0
     THEN LET W2 == [W1 EXCEPT !.self.task[t].dodelay = @ - 1]
          IN IF Len(W.self.transports) = 0
             THEN Crash(W2, t)                         \* ZeroDivisionError
             ELSE Suspend(W2, t, "sleep_rr")
     ELSE LoopHead(W1, t, recent)

\* the except branch without the return taken when no connection is left
Timeout_nostop(W, t, recent) ==
  LET f == Frame(W, t)
      cid == f.msg.id
  IN IF f.attempts >= f.max_attempts
     THEN LET W1 == IF cid \in DOMAIN W.self.pending_reply
                    THEN [Callb(W, W.self.pending_reply[cid].cb, cid, "fail")
                          EXCEPT !.self.pending_reply = DelReply(@, cid)]
                    ELSE W
          IN IF f.myidx >= Len(W1.self.transports)
             THEN Crash(W1, t)
             ELSE PostEntry(XiaomiBulb_unregister(W1, W1.self.transports[f.myidx + 1]),
                            t, recent)
     ELSE Attempt(W, t, recent)

\* wait_for(event.wait(), timeout_secs) raises: the except branch
Timeout(W, t, recent) ==
  LET f == Frame(W, t)
      cid == f.msg.id
  IN IF f.attempts >= f.max_attempts
     THEN LET W1 == IF cid \in DOMAIN W.self.pending_reply
                    THEN [Callb(W, W.self.pending_reply[cid].cb, cid, "fail")
                          EXCEPT !.self.pending_reply = DelReply(@, cid)]
                    ELSE W
          IN IF f.myidx >= Len(W1.self.transports)
             THEN Crash(W1, t)                                \* IndexError
             ELSE LET W2 == XiaomiBulb_unregister(W1, W1.self.transports[f.myidx + 1])
                  IN IF Len(W2.self.transports) = 0
                     THEN Finish(W2, t)
                     ELSE PostEntry(W2, t, recent)
     ELSE Attempt(W, t, recent)

\* -------------------------------------------------------------- actions
World(s) == [s |-> s, self |-> bulb[s], reg |-> registry, ret |-> FALSE, exc |-> ""]

Commit(W) ==
  /\ bulb' = [bulb EXCEPT ![W.s] = W.self]
  /\ registry' = W.reg
  /\ upnp' = upnp

Exists(s) == bulb[s].exists

set_connections(s, nb) ==
  /\ Exists(s) /\ ~bulb[s].activated
  /\ Commit(XiaomiBulb_set_connections(World(s), nb))

activate(s) ==
  /\ Exists(s) /\ ~bulb[s].activated
  /\ Commit(XiaomiBulb_activate(World(s)))

connection_made(s) ==
  /\ Exists(s) /\ bulb[s].connecting > 0
  /\ Commit(XiaomiConnect_connection_made(World(s)))

\* create_connection fails: the future holds the error, nothing registers
connect_failed(s) ==
  /\ Exists(s) /\ bulb[s].connecting > 0
  /\ Commit([World(s) EXCEPT !.self.connecting = @ - 1])

\* the application closes the session; cleaned records that it did
cleanup(s) ==
  /\ Exists(s) /\ ~bulb[s].cleaned
  /\ Commit([XiaomiBulb_cleanup(World(s)) EXCEPT !.self.cleaned = TRUE])

connection_lost(s, c) ==
  /\ Exists(s) /\ c \in bulb[s].conns
  /\ Commit(XiaomiConnect_connection_lost(World(s), c))

\* bulbs.new_bulb(address, headers) for a reply carrying identity id
FreeSessions == {x \in Sessions : ~bulb[x].exists}
\* the search of new_bulb looking at the known list only
Found_knownonly(id) ==
  \E x \in Range(registry.bulbs) : bulb[x].bulb_id = id

Found(id) ==
  \/ \E x \in Range(registry.bulbs) : bulb[x].bulb_id = id
  \/ \E x \in Range(registry.pending_bulbs) : bulb[x].bulb_id = id

new_bulb(id, sup) ==
  /\ registry.replies < MaxReplies
  /\ IF Found(id)
     THEN /\ registry' = [registry EXCEPT !.replies = @ + 1]
          /\ UNCHANGED <<bulb, upnp>>
     ELSE /\ FreeSessions # {}
          /\ LET s == CHOOSE x \in FreeSessions : \A y \in FreeSessions : x <= y
              W0 == [s |-> s, self |-> XiaomiBulb_init(id, sup, 1),
                     reg |-> [registry EXCEPT !.pending_bulbs = Append(@, s),
                                              !.replies = @ + 1],
                     ret |-> TRUE, exc |-> ""]
              W1 == XiaomiBulb_set_connections(W0, NEW_BULB_CONNECTIONS)
              W2 == XiaomiBulb_set_queue_limit(W1, NEW_BULB_QUEUE_LIMIT, "adapt")
             IN Commit(XiaomiBulb_activate(W2))

set_queue_limit(s, length, policy) ==
  /\ Exists(s)
  /\ Commit(XiaomiBulb_set_queue_limit(World(s), length, policy))

\* set_music("start") would create a Future and a server socket
StartsHandoff(b) == Supports(b.support, "set_music") /\ b.musicm.k = "False"

\* a send_msg call of the application; hascb: a callback is passed
send_msg(s, hascb, ma) ==
  /\ Exists(s) /\ bulb[s].ncalls < MaxCmds
  /\ \E t \in TaskIds : bulb[s].task[t].pc = "idle"
  /\ (bulb[s].queue_policy = "adapt" /\ bulb[s].queue_limit > 0
      /\ Len(bulb[s].message_queue) >= bulb[s].queue_limit /\ StartsHandoff(bulb[s]))
     => Len(bulb[s].hand) < MaxHandoffs
  /\ \E idx \in 0..Len(bulb[s].message_queue) :
        Commit(XiaomiBulb_send_msg(World(s), hascb, ma, idx))

\* a send_msg call whose max_attempts argument is kept: asked[k] is the
\* argument of call number k
send_msg_asking(s, hascb, ma) ==
  /\ Exists(s) /\ bulb[s].ncalls < MaxCmds
  /\ \E t \in TaskIds : bulb[s].task[t].pc = "idle"
  /\ Commit(XiaomiBulb_send_msg([World(s) EXCEPT !.self.asked = Append(@, ma)],
                                hascb, ma, 0))

\* a set_music call of the application
set_music(s, action, delay, cb) ==
  /\ Exists(s)
  /\ (action = "start" /\ StartsHandoff(bulb[s])) => Len(bulb[s].hand) < MaxHandoffs
  /\ Commit(XiaomiBulb_set_music(World(s), action, delay, cb))

\* a set_music call where the mode may be started MaxRestarts times
set_music_again(s, action, delay, cb) ==
  /\ Exists(s)
  /\ (action = "start" /\ StartsHandoff(bulb[s])) => Len(bulb[s].hand) < MaxRestarts
  /\ Commit(XiaomiBulb_set_music(World(s), action, delay, cb))

send_msg_noqueue(s) ==
  /\ Exists(s) /\ bulb[s].soon # <<>>
  /\ Commit(XiaomiBulb_send_msg_noqueue(World(s)))

\* the device connects back to the server socket of handoff h
music_connection_made(s, h) ==
  /\ Exists(s) /\ h \in 1..Len(bulb[s].hand) /\ bulb[s].hand[h].conn = "none"
  /\ Commit(XiaomiMusicConnect_connection_made(World(s), h))

music_connection_lost(s, h) ==
  /\ Exists(s) /\ h \in 1..Len(bulb[s].hand)
  /\ bulb[s].hand[h].conn \in {"open", "closing"}
  /\ Commit(XiaomiMusicConnect_connection_lost(World(s), h))

autoclose_me(s, h) ==
  /\ Exists(s) /\ h \in 1..Len(bulb[s].hand) /\ bulb[s].hand[h].watch
  /\ bulb[s].now >= bulb[s].hand[h].next
  /\ Commit(XiaomiMusicConnect_autoclose_me(World(s), h))

\* a reply line with id cid arrives on an open connection
data_received(s, cid) ==
  /\ Exists(s) /\ bulb[s].conns # {}
  /\ Commit(XiaomiBulb_data_received(World(s), cid))

\* a line without an id arrives on an open connection; notes is the list
\* of the lines received so far
notification(s, note) ==
  /\ Exists(s) /\ bulb[s].conns # {} /\ Len(bulb[s].notes) < MaxNotes
  /\ Commit(XiaomiBulb_data_received_note(
              [World(s) EXCEPT !.self.notes = Append(@, note)], note))

\* Queue.put(x) and Queue.trim(length) on the queue object of the session
queue_put(s, x) ==
  /\ Exists(s) /\ Len(bulb[s].message_queue) < MaxQueue
  /\ Commit([World(s) EXCEPT !.self.message_queue = Queue_put(@, x)])

queue_trim(s, length) ==
  /\ Exists(s)
  /\ Commit([World(s) EXCEPT !.self.message_queue = Queue_trim(@, length)])

\* a command method called by the application
Args ==
  {DefaultArgs,
   [DefaultArgs EXCEPT !.x = "off"],
   [DefaultArgs EXCEPT !.mode = TRUE],
   [DefaultArgs EXCEPT !.ok = FALSE],
   [DefaultArgs EXCEPT !.effect = "smooth"],
   [DefaultArgs EXCEPT !.effect = "smooth", !.duration = JInt(10)],
   [DefaultArgs EXCEPT !.effect = "smooth", !.duration = JInt(500)],
   [DefaultArgs EXCEPT !.duration = JInt(10)]}

command(s, m, a, hascb) ==
  /\ Exists(s) /\ bulb[s].ncmds < MaxCalls
  /\ Commit([XiaomiBulb_command(World(s), m, a, hascb) EXCEPT !.self.ncmds = @ + 1])

\* the loop hands a datagram to the listener
datagram_received(data) ==
  /\ upnp.received < MaxDatagrams
  /\ upnp' = XiaomiUPnP_datagram_received(upnp, data)
  /\ UNCHANGED <<registry, bulb>>

Pc(s, t) == bulb[s].task[t].pc

try_sending_start(s, t) ==
  /\ Pc(s, t) = "start"
  /\ \E recent \in BOOLEAN :
        Commit(Start(World(s), t, recent))

\* sleep(1.0/len(self.transports)) or sleep(0.1) is over
try_sending_resume(s, t) ==
  /\ Pc(s, t) \in {"sleep_rr", "sleep_music"}
  /\ \E recent \in BOOLEAN :
        Commit(LoopHead(World(s), t, recent))

\* the rate-limit sleep is over
try_sending_wake(s, t) ==
  /\ Pc(s, t) = "sleep_rate"
  /\ bulb[s].now >= bulb[s].task[t].wake
  /\ Commit(PoolWrite([World(s) EXCEPT !.self.task[t].wake = 0], t))

\* the clock advances by one unit
tick(s) ==
  /\ Exists(s) /\ bulb[s].timed /\ bulb[s].now < MaxTime
  /\ Commit([World(s) EXCEPT !.self.now = @ + 1])

\* the Event was set: wait_for returns and the attempts loop breaks
try_sending_replied(s, t) ==
  /\ Pc(s, t) = "wait_reply" /\ bulb[s].task[t].ev
  /\ \E recent \in BOOLEAN :
        Commit(PostEntry(World(s), t, recent))

\* Timeouts are handled in the step that wakes the coroutine, and a reply
\* received before that step wins over the timer.
try_sending_timeout(s, t) ==
  /\ Pc(s, t) = "wait_reply" /\ ~bulb[s].task[t].ev
  /\ \E recent \in BOOLEAN :
        Commit(Timeout(World(s), t, recent))

try_sending_music(s, t) ==
  /\ Pc(s, t) = "wait_music"
  /\ bulb[s].hand[bulb[s].task[t].h].fut # "pending"
  /\ \E recent \in BOOLEAN :
        Commit(MusicAwaited(World(s), t, recent))

try_sending_music_timeout(s, t) ==
  /\ Pc(s, t) = "wait_music"
  /\ bulb[s].hand[bulb[s].task[t].h].fut = "pending"
  /\ \E recent \in BOOLEAN :
        Commit(MusicTimeout(World(s), t, recent))

\* ------------------------------------------------------- specifications
AllSupport == {"set_music"}

\* the discovery scenario: sessions are created by new_bulb only and the
\* application issues no command
InitRegistry ==
  /\ registry = bulbs_init
  /\ upnp = XiaomiUPnP_init
  /\ bulb = [s \in Sessions |-> NoBulb]

NextRegistry ==
  \/ \E id \in Identities : new_bulb(id, AllSupport)
  \/ \E s \in Sessions : connection_made(s)
  \/ \E s \in Sessions : connect_failed(s)
  \/ \E s \in Sessions, c \in 1..NEW_BULB_CONNECTIONS : connection_lost(s, c)

SpecRegistry == InitRegistry /\ [][NextRegistry]_vars

\* the listener scenario: datagrams arrive and the handler records what it
\* is given
InitDiscover ==
  /\ registry = bulbs_init
  /\ upnp = XiaomiUPnP_init
  /\ bulb = [s \in Sessions |-> NoBulb]

NextDiscover == \E data \in Datagrams : datagram_received(data)

SpecDiscover == InitDiscover /\ [][NextDiscover]_vars

\* the connection-pool scenario: one session built by the application with
\* any connection count, which issues no command
InitPool ==
  /\ registry = bulbs_init
  /\ upnp = XiaomiUPnP_init
  /\ \E n \in 0..MaxNb :
       bulb = [s \in Sessions |->
                 IF s = 1 THEN XiaomiBulb_init(1, AllSupport, n) ELSE NoBulb]

NextPool ==
  \/ \E nb \in 0..MaxNb : set_connections(1, nb)
  \/ activate(1)
  \/ connection_made(1)
  \/ connect_failed(1)
  \/ \E c \in 1..MaxNb : connection_lost(1, c)
  \/ cleanup(1)

SpecPool == InitPool /\ [][NextPool]_vars

\* the delivery scenario: one session built by the application for a
\* device without the set_music capability, with the default unbounded
\* queue; the application sends commands through send_msg
AttemptArgs == {DEFAULT_ATTEMPTS} \cup 1..MaxAttemptsArg

Init ==
  /\ registry = bulbs_init
  /\ upnp = XiaomiUPnP_init
  /\ \E n \in 1..MaxTnb :
       bulb = [s \in Sessions |->
                 IF s = 1 THEN XiaomiBulb_init(1, {}, n) ELSE NoBulb]

Next ==
  \/ activate(1)
  \/ connection_made(1)
  \/ \E c \in 1..MaxTnb : connection_lost(1, c)
  \/ \E hascb \in BOOLEAN, ma \in AttemptArgs : send_msg(1, hascb, ma)
  \/ \E cid \in 1..(bulb[1].seq + 1) : data_received(1, cid)
  \/ \E t \in TaskIds : try_sending_start(1, t)
  \/ \E t \in TaskIds : try_sending_resume(1, t)
  \/ \E t \in TaskIds : try_sending_wake(1, t)
  \/ \E t \in TaskIds : try_sending_replied(1, t)
  \/ \E t \in TaskIds : try_sending_timeout(1, t)

Spec == Init /\ [][Next]_vars

\* every step of a drain task that is ready is eventually taken: the loop
\* runs a ready coroutine, a sleep ends and wait_for returns or times out.
\* Nothing is assumed of the application or of the device.
FairDrain ==
  \A t \in TaskIds :
     /\ WF_vars(try_sending_start(1, t))
     /\ WF_vars(try_sending_resume(1, t))
     /\ WF_vars(try_sending_wake(1, t))
     /\ WF_vars(try_sending_replied(1, t))
     /\ WF_vars(try_sending_timeout(1, t))

SpecFair == Spec /\ FairDrain

\* the queue-policy scenario: one session with a single connection that is
\* never lost; the application sets the queue limit and policy at any time
\* and sends commands
InitQueue ==
  /\ registry = bulbs_init
  /\ upnp = XiaomiUPnP_init
  /\ bulb = [s \in Sessions |->
               IF s = 1 THEN XiaomiBulb_init(1, {}, 1) ELSE NoBulb]

NextQueue ==
  \/ \E n \in 0..MaxLimit, p \in Policies : set_queue_limit(1, n, p)
  \/ activate(1)
  \/ connection_made(1)
  \/ \E hascb \in BOOLEAN, ma \in AttemptArgs : send_msg(1, hascb, ma)
  \/ \E cid \in 1..(bulb[1].seq + 1) : data_received(1, cid)
  \/ \E t \in TaskIds : try_sending_start(1, t)
  \/ \E t \in TaskIds : try_sending_wake(1, t)
  \/ \E t \in TaskIds : try_sending_replied(1, t)
  \/ \E t \in TaskIds : try_sending_timeout(1, t)

SpecQueue == InitQueue /\ [][NextQueue]_vars

\* the direct-stream scenario: one session with a single pooled
\* connection for a device that advertises set_music; the application
\* limits the queue with policy adapt, sends commands and starts or stops
\* the mode, and the device connects back or not
InitMusic ==
  /\ registry = bulbs_init
  /\ upnp = XiaomiUPnP_init
  /\ bulb = [s \in Sessions |->
               IF s = 1 THEN XiaomiBulb_init(1, AllSupport, 1) ELSE NoBulb]

NextMusic ==
  \/ /\ bulb[1].queue_limit = 0
     /\ \E n \in 1..MaxLimit : set_queue_limit(1, n, "adapt")
  \/ activate(1)
  \/ connection_made(1)
  \/ /\ bulb[1].ncalls < MaxMusicCmds
     /\ \E hascb \in BOOLEAN : send_msg(1, hascb, DEFAULT_ATTEMPTS)
  \/ \E action \in {"start", "stop"}, delay \in {0, 5} : set_music(1, action, delay, 0)
  \/ send_msg_noqueue(1)
  \/ \E h \in 1..MaxHandoffs : music_connection_made(1, h)
  \/ \E h \in 1..MaxHandoffs : music_connection_lost(1, h)
  \/ \E h \in 1..MaxHandoffs : autoclose_me(1, h)
  \/ \E cid \in 1..bulb[1].seq : data_received(1, cid)
  \/ \E t \in TaskIds : try_sending_start(1, t)
  \/ \E t \in TaskIds : try_sending_resume(1, t)
  \/ \E t \in TaskIds : try_sending_wake(1, t)
  \/ \E t \in TaskIds : try_sending_replied(1, t)
  \/ \E t \in TaskIds : try_sending_timeout(1, t)
  \/ \E t \in TaskIds : try_sending_music(1, t)
  \/ \E t \in TaskIds : try_sending_music_timeout(1, t)

SpecMusic == InitMusic /\ [][NextMusic]_vars

\* What the event loop guarantees: a call_soon callback runs, a sleep or a
\* wait_for ends, the watchdog of an idle inbound connection polls, and a
\* closed transport gets its connection_lost.  Nothing is assumed of the
\* application or of the device.
FairMusic ==
  /\ WF_vars(send_msg_noqueue(1))
  /\ \A h \in 1..MaxHandoffs :
        /\ WF_vars(autoclose_me(1, h))
        /\ WF_vars(music_connection_lost(1, h) /\ bulb[1].hand[h].conn = "closing")
  /\ \A t \in TaskIds :
        /\ WF_vars(try_sending_start(1, t))
        /\ WF_vars(try_sending_resume(1, t))
        /\ WF_vars(try_sending_wake(1, t))
        /\ WF_vars(try_sending_replied(1, t))
        /\ WF_vars(try_sending_timeout(1, t))
        /\ WF_vars(try_sending_music(1, t))
        /\ WF_vars(try_sending_music_timeout(1, t))

SpecMusicFair == SpecMusic /\ FairMusic

\* the overflow scenario: the same session with limit 1 and policy adapt;
\* the application only sends commands, so the mode is started by the
\* overflow alone, and the device connects back or not
NextAdapt ==
  \/ /\ bulb[1].queue_limit = 0
     /\ set_queue_limit(1, 1, "adapt")
  \/ activate(1)
  \/ connection_made(1)
  \/ \E hascb \in BOOLEAN : send_msg(1, hascb, DEFAULT_ATTEMPTS)
  \/ send_msg_noqueue(1)
  \/ \E h \in 1..MaxHandoffs : music_connection_made(1, h)
  \/ \E cid \in 1..bulb[1].seq : data_received(1, cid)
  \/ \E t \in TaskIds : try_sending_start(1, t)
  \/ \E t \in TaskIds : try_sending_resume(1, t)
  \/ \E t \in TaskIds : try_sending_wake(1, t)
  \/ \E t \in TaskIds : try_sending_replied(1, t)
  \/ \E t \in TaskIds : try_sending_timeout(1, t)
  \/ \E t \in TaskIds : try_sending_music(1, t)
  \/ \E t \in TaskIds : try_sending_music_timeout(1, t)

SpecAdapt == InitMusic /\ [][NextAdapt]_vars

\* the timed scenario: the clock is modelled; the application sends
\* commands and starts the direct-stream mode, whose command bypasses
\* the queue
InitTimed ==
  /\ registry = bulbs_init
  /\ upnp = XiaomiUPnP_init
  /\ bulb = [s \in Sessions |->
               IF s = 1
               THEN [XiaomiBulb_init(1, AllSupport, 1) EXCEPT !.timed = TRUE]
               ELSE NoBulb]

NextTimed ==
  \/ activate(1)
  \/ connection_made(1)
  \/ /\ bulb[1].ncalls < MaxMusicCmds
     /\ \E hascb \in BOOLEAN : send_msg(1, hascb, DEFAULT_ATTEMPTS + 1)
  \/ set_music(1, "start", 5, 0)
  \/ send_msg_noqueue(1)
  \/ \E h \in 1..MaxHandoffs : music_connection_made(1, h)
  \/ \E cid \in 1..bulb[1].seq : data_received(1, cid)
  \/ \E t \in TaskIds : try_sending_start(1, t)
  \/ \E t \in TaskIds : try_sending_resume(1, t)
  \/ \E t \in TaskIds : try_sending_wake(1, t)
  \/ \E t \in TaskIds : try_sending_replied(1, t)
  \/ \E t \in TaskIds : try_sending_timeout(1, t)
  \/ \E t \in TaskIds : try_sending_music(1, t)
  \/ \E t \in TaskIds : try_sending_music_timeout(1, t)
  \/ tick(1)

SpecTimed == InitTimed /\ [][NextTimed]_vars

\* the watchdog scenario: the clock is modelled, the application starts
\* the direct-stream mode with an idle period of 1 unit and sends commands;
\* the device connects back and may close the connection
NextWatch ==
  \/ activate(1)
  \/ connection_made(1)
  \/ /\ bulb[1].ncalls < MaxMusicCmds
     /\ send_msg(1, FALSE, DEFAULT_ATTEMPTS)
  \/ set_music(1, "start", 1, 0)
  \/ send_msg_noqueue(1)
  \/ \E h \in 1..MaxHandoffs : music_connection_made(1, h)
  \/ \E h \in 1..MaxHandoffs : music_connection_lost(1, h)
  \/ \E h \in 1..MaxHandoffs : autoclose_me(1, h)
  \/ \E cid \in 1..bulb[1].seq : data_received(1, cid)
  \/ \E t \in TaskIds : try_sending_start(1, t)
  \/ \E t \in TaskIds : try_sending_resume(1, t)
  \/ \E t \in TaskIds : try_sending_wake(1, t)
  \/ \E t \in TaskIds : try_sending_replied(1, t)
  \/ \E t \in TaskIds : try_sending_timeout(1, t)
  \/ \E t \in TaskIds : try_sending_music(1, t)
  \/ \E t \in TaskIds : try_sending_music_timeout(1, t)
  \/ tick(1)

SpecWatch == InitTimed /\ [][NextWatch]_vars

\* the same fairness in the watchdog scenario; nothing is assumed of the
\* clock either
SpecWatchFair == SpecWatch /\ FairMusic

\* the command scenario: one session built from discovery headers that
\* carry one of a few capability lists and may carry the power attribute;
\* the application calls command methods one after the other
ColorBulb ==
  {"get_prop", "set_default", "set_power", "toggle", "set_bright", "start_cf",
   "stop_cf", "set_scene", "cron_add", "cron_get", "cron_del", "set_ct_abx",
   "set_rgb", "set_hsv", "set_adjust", "set_music", "set_name"}
Ceiling ==
  {"get_prop", "set_default", "set_power", "toggle", "set_bright", "start_cf",
   "stop_cf", "set_scene", "cron_add", "cron_get", "cron_del", "set_ct_abx",
   "set_name", "bg_set_rgb", "bg_set_hsv", "bg_set_ct_abx", "bg_set_power",
   "bg_toggle", "dev_toggle"}
BgLamp == {"bg_set_power", "bg_toggle"}
CapabilityLists == {{}, ColorBulb, Ceiling, BgLamp}
PowerHeaders ==
  {[x \in {} |-> ""], [x \in {"power"} |-> "on"], [x \in {"power"} |-> "off"]}

InitCmd ==
  /\ registry = bulbs_init
  /\ upnp = XiaomiUPnP_init
  /\ \E sup \in CapabilityLists, props \in PowerHeaders :
       bulb = [s \in Sessions |->
                 IF s = 1 THEN WithHeaders(XiaomiBulb_init(1, sup, 1), props)
                 ELSE NoBulb]

NextCmd ==
  /\ \E m \in CommandMethods, a \in Args, hascb \in BOOLEAN : command(1, m, a, hascb)

SpecCmd == InitCmd /\ [][NextCmd]_vars

\* the arguments scenario: one session with a single connection and no
\* queue limit, so that the id of a command is the number of its call; the
\* application passes max_attempts with each command
NextArgs ==
  \/ activate(1)
  \/ connection_made(1)
  \/ \E hascb \in BOOLEAN, ma \in AttemptArgs : send_msg_asking(1, hascb, ma)
  \/ \E cid \in 1..bulb[1].seq : data_received(1, cid)
  \/ \E t \in TaskIds : try_sending_start(1, t)
  \/ \E t \in TaskIds : try_sending_wake(1, t)
  \/ \E t \in TaskIds : try_sending_replied(1, t)
  \/ \E t \in TaskIds : try_sending_timeout(1, t)

SpecArgs == InitQueue /\ [][NextArgs]_vars

\* the restart scenario: the application starts and stops the
\* direct-stream mode more than once; the device connects back and the
\* connections are lost at any time
NextRestart ==
  \/ activate(1)
  \/ connection_made(1)
  \/ \E action \in {"start", "stop"} : set_music_again(1, action, 0, 0)
  \/ send_msg_noqueue(1)
  \/ \E h \in 1..MaxRestarts : music_connection_made(1, h)
  \/ \E h \in 1..MaxRestarts : music_connection_lost(1, h)

SpecRestart == InitMusic /\ [][NextRestart]_vars

\* the queue object alone: entries are put and the queue is trimmed
NextTrim ==
  \/ \E i \in 1..MaxEntry : queue_put(1, [id |-> i, cb |-> 0])
  \/ \E n \in 0..MaxTrim : queue_trim(1, n)

SpecTrim == InitQueue /\ [][NextTrim]_vars

\* the notification scenario: a session built from discovery headers
\* sends commands and receives replies and notifications
InitNotify ==
  /\ registry = bulbs_init
  /\ upnp = XiaomiUPnP_init
  /\ \E props \in PowerHeaders :
       bulb = [s \in Sessions |->
                 IF s = 1 THEN WithHeaders(XiaomiBulb_init(1, ColorBulb, 1), props)
                 ELSE NoBulb]

NextNotify ==
  \/ activate(1)
  \/ connection_made(1)
  \/ \E hascb \in BOOLEAN : send_msg(1, hascb, DEFAULT_ATTEMPTS)
  \/ \E t \in TaskIds : try_sending_start(1, t)
  \/ \E cid \in 1..bulb[1].seq : data_received(1, cid)
  \/ \E note \in Notes : notification(1, note)

SpecNotify == InitNotify /\ [][NextNotify]_vars

\* ------------------------------------------------------------- claims
LiveTasks(s) == {t \in TaskIds : bulb[s].task[t].pc \notin {"idle", "crashed"}}
PoolWritten(b, c) ==
  \E i \in 1..Len(b.wlog) : b.wlog[i].id = c /\ b.wlog[i].via = "pool"
Resolutions(b, c) == {i \in 1..Len(b.cblog) : b.cblog[i].id = c}

\* C1: for every session at most one try_sending task is live in any state,
\* a live task implies is_sending, and a step that starts a task is taken
\* with is_sending false and sets it
C1_SingleDrain ==
  /\ [](\A s \in Sessions :
          /\ Cardinality(LiveTasks(s)) <= 1
          /\ LiveTasks(s) # {} => bulb[s].is_sending)
  /\ [][\A s \in Sessions, t \in TaskIds :
          (bulb[s].task[t].pc = "idle" /\ bulb'[s].task[t].pc = "start")
             => (~bulb[s].is_sending /\ bulb'[s].is_sending)]_vars

\* send_msg was called while the task started by an earlier call waits for
\* a reply, and its message is queued behind
C1_Witness ==
  /\ bulb[1].ncalls >= 2
  /\ LiveTasks(1) = {1}
  /\ bulb[1].task[1].pc = "wait_reply"
  /\ Len(bulb[1].message_queue) >= 1

\* C2: when the first reply with the id of a command arrives while the
\* command is written to the pool and its attempts are not exhausted, the
\* command is resolved with that reply in this very step and its id leaves
\* pending_reply; a command resolved by a reply is resolved exactly once
\* and its id is not in pending_reply afterwards
C2_ReplyOnce ==
  /\ [](\A i \in 1..Len(bulb[1].cblog) :
          bulb[1].cblog[i].res = "reply"
             => /\ Resolutions(bulb[1], bulb[1].cblog[i].id) = {i}
                /\ bulb[1].cblog[i].id \notin DOMAIN bulb[1].pending_reply)
  /\ [][\A t \in TaskIds :
          LET f == bulb[1].task[t]
          IN (f.pc \in {"wait_reply", "sleep_rate"} /\ ~f.ev
              /\ PoolWritten(bulb[1], f.msg.id) /\ data_received(1, f.msg.id))
             => /\ bulb'[1].cblog = Append(bulb[1].cblog,
                       [cb |-> f.msg.cb, id |-> f.msg.id, res |-> "reply"])
                /\ f.msg.id \notin DOMAIN bulb'[1].pending_reply]_vars

\* a command sent with a callback and written twice was answered: the
\* callback got the reply
C2_Witness ==
  \E i \in 1..Len(bulb[1].cblog) :
     /\ bulb[1].cblog[i].res = "reply" /\ bulb[1].cblog[i].cb # 0
     /\ Cardinality({j \in 1..Len(bulb[1].wlog) :
                        bulb[1].wlog[j].id = bulb[1].cblog[i].id}) = 2

\* C3: a reply whose id is not in pending_reply resolves nothing and leaves
\* pending_reply, the queue and the connection list as they are
C3_StrayReplyIgnored ==
  [][\A cid \in 1..(bulb[1].seq + 1) :
       (cid \notin DOMAIN bulb[1].pending_reply /\ data_received(1, cid))
          => /\ bulb'[1].cblog = bulb[1].cblog
             /\ bulb'[1].pending_reply = bulb[1].pending_reply
             /\ bulb'[1].message_queue = bulb[1].message_queue
             /\ bulb'[1].transports = bulb[1].transports]_vars

\* a reply with an unknown id was received after a command had been
\* resolved by its reply
C3_Witness ==
  /\ bulb[1].stray
  /\ \E i \in 1..Len(bulb[1].cblog) :
        /\ bulb[1].cblog[i].res = "reply"
        /\ bulb[1].cblog[i].id \notin DOMAIN bulb[1].pending_reply

\* C4: a send_msg call made with policy head and limit N > 0 appends the
\* new command while fewer than N are queued, and with N queued it leaves N
\* commands: the oldest is gone, the others keep their order and the new
\* command is last
C4_HeadEvictsOldest ==
  [][\A hascb \in BOOLEAN, ma \in AttemptArgs :
       LET b == bulb[1]
           new == [id |-> (b.seq + 1) % MESSAGE_WINDOW,
                   cb |-> IF hascb THEN b.ncalls + 1 ELSE 0]
       IN (b.queue_policy = "head" /\ b.queue_limit > 0 /\ send_msg(1, hascb, ma))
          => /\ Len(b.message_queue) < b.queue_limit
                  => bulb'[1].message_queue = Append(b.message_queue, new)
             /\ Len(b.message_queue) = b.queue_limit
                  => /\ Len(bulb'[1].message_queue) = b.queue_limit
                     /\ bulb'[1].message_queue = Append(Tail(b.message_queue), new)]_vars

\* three commands were sent with limit 2 and policy head before the drain
\* task ran: the second and the third are queued
C4_Witness ==
  /\ bulb[1].queue_policy = "head" /\ bulb[1].queue_limit = 2
  /\ bulb[1].ncalls = 3 /\ bulb[1].seq = 3
  /\ \E t \in TaskIds : bulb[1].task[t].pc = "start"
  /\ Len(bulb[1].message_queue) = 2
  /\ bulb[1].message_queue[1].id = 2 /\ bulb[1].message_queue[2].id = 3

\* C5: a send_msg call made with policy drop, limit N > 0 and N commands
\* queued leaves the queue, the sequence counter, pending_reply and the
\* callback log as they are, and the callback of a rejected call is never
\* invoked
C5_DropRejects ==
  /\ [][\A hascb \in BOOLEAN, ma \in AttemptArgs :
          LET b == bulb[1]
          IN (b.queue_policy = "drop" /\ b.queue_limit > 0
              /\ Len(b.message_queue) = b.queue_limit /\ send_msg(1, hascb, ma))
             => /\ bulb'[1].message_queue = b.message_queue
                /\ bulb'[1].seq = b.seq
                /\ bulb'[1].pending_reply = b.pending_reply
                /\ bulb'[1].cblog = b.cblog
                /\ bulb'[1].dropped = b.dropped \cup {b.ncalls + 1}]_vars
  /\ [](\A i \in 1..Len(bulb[1].cblog) : bulb[1].cblog[i].cb \notin bulb[1].dropped)

\* a call was rejected, and the callbacks of an earlier and of a later call
\* were invoked
C5_Witness ==
  \E k \in bulb[1].dropped :
     /\ \E i \in 1..Len(bulb[1].cblog) : bulb[1].cblog[i].cb \in 1..(k - 1)
     /\ \E i \in 1..Len(bulb[1].cblog) : bulb[1].cblog[i].cb > k

\* the pool writes of command c, and the commands the drain task is done
\* with: resolved, or held by a task that an exception ended
WritesOf(b, c) ==
  {i \in 1..Len(b.wlog) : b.wlog[i].id = c /\ b.wlog[i].via = "pool"}
Abandoned(b) ==
  {b.task[t].msg.id : t \in {x \in TaskIds : b.task[x].pc = "crashed"}} \ {0}
DoneWith(b) == {b.cblog[i].id : i \in 1..Len(b.cblog)} \cup Abandoned(b)

\* all the k = tnb connections are open, none was lost, and the first
\* write was made with the k of them registered
AllOpen(b) ==
  /\ b.connecting = 0 /\ b.conns = 1..b.tnb
  /\ b.wlog # <<>> /\ b.wlog[1].n = b.tnb

\* C6: with the k connections open and no reply received, as long as every
\* command was written at most once, each of the first k commands the drain
\* task is done with was written, and the writes of the first k commands
\* went to pairwise distinct connections
C6_RoundRobin ==
  LET b == bulb[1]
      k == b.tnb
  IN (/\ AllOpen(b)
      /\ \A i \in 1..Len(b.cblog) : b.cblog[i].res # "reply"
      /\ \A c \in 1..b.seq : Cardinality(WritesOf(b, c)) <= 1)
     => /\ \A c \in DoneWith(b) \cap 1..k : WritesOf(b, c) # {}
        /\ \A i, j \in 1..Len(b.wlog) :
              (i < j /\ b.wlog[i].id <= k /\ b.wlog[j].id <= k)
                 => b.wlog[i].conn # b.wlog[j].conn

\* C7: with the k connections open and the session registered, a command
\* that the drain task is done with and that got no reply was written
\* max_attempts times, was resolved exactly once, with the failure
\* indication, and is not in pending_reply; and the step of the final
\* timeout of a command resolves it with the failure indication after
\* max_attempts writes, removes it from pending_reply and removes the
\* connection it was last written to from transports
C7_FailAfterAttempts ==
  /\ [](LET b == bulb[1]
        IN (AllOpen(b) /\ b.registered)
           => \A t \in TaskIds :
                 LET f == b.task[t]
                 IN (f.pc = "crashed" /\ f.msg.id # 0)
                    => /\ Cardinality(WritesOf(b, f.msg.id)) = f.max_attempts
                       /\ \E i \in 1..Len(b.cblog) :
                             /\ b.cblog[i].res = "fail"
                             /\ Resolutions(b, f.msg.id) = {i}
                       /\ f.msg.id \notin DOMAIN b.pending_reply)
  /\ [][\A t \in TaskIds :
          LET b == bulb[1]
              f == b.task[t]
              last == b.wlog[CHOOSE i \in WritesOf(b, f.msg.id) :
                                \A j \in WritesOf(b, f.msg.id) : j <= i]
          IN (AllOpen(b) /\ f.attempts >= f.max_attempts /\ try_sending_timeout(1, t))
             => /\ Cardinality(WritesOf(b, f.msg.id)) = f.max_attempts
                /\ bulb'[1].cblog = Append(b.cblog,
                       [cb |-> f.msg.cb, id |-> f.msg.id, res |-> "fail"])
                /\ f.msg.id \notin DOMAIN bulb'[1].pending_reply
                /\ last.conn \notin Range(bulb'[1].transports)]_vars

\* C8: once activated, a session has opened at most min(4, max(1, tnb))
\* connections, and transports never holds more than 4 entries
C8_AtMostFour ==
  \A s \in Sessions :
     /\ bulb[s].activated
           => bulb[s].connecting + bulb[s].nconn
                 <= Min2(MAX_TRANSPORTS, Max2(1, bulb[s].tnb))
     /\ Len(bulb[s].transports) <= MAX_TRANSPORTS

\* C9: the registered flag is set exactly when transports is not empty, and
\* exactly when the registry holds the session in its known list
C9_RegisteredIffConnected ==
  /\ bulb[1].registered <=> bulb[1].transports # <<>>
  /\ bulb[1].registered <=> 1 \in Range(registry.bulbs)
  /\ Len(registry.bulbs) <= 1

\* the final timeout of a command removed the last connection while its
\* socket is still open: the session is unregistered and the registry has
\* dropped it
C9_Witness ==
  /\ ~bulb[1].registered /\ bulb[1].transports = <<>>
  /\ bulb[1].conns # {}
  /\ registry.bulbs = <<>>
  /\ \E i \in 1..Len(bulb[1].cblog) : bulb[1].cblog[i].res = "fail"

\* C10: new_bulb for an identity found in neither list creates exactly one
\* session, appended to pending_bulbs and not put in bulbs; the first
\* connection of a pending session moves it from pending_bulbs to bulbs;
\* no session is in both lists
C10_PendingThenKnown ==
  /\ [](Range(registry.pending_bulbs) \cap Range(registry.bulbs) = {})
  /\ [][\A id \in Identities :
          (~Found(id) /\ new_bulb(id, AllSupport))
             => \E s \in Sessions :
                   /\ ~bulb[s].exists /\ bulb'[s].exists /\ bulb'[s].bulb_id = id
                   /\ \A x \in Sessions \ {s} : bulb'[x] = bulb[x]
                   /\ registry'.pending_bulbs = Append(registry.pending_bulbs, s)
                   /\ registry'.bulbs = registry.bulbs]_vars
  /\ [][\A s \in Sessions :
          (s \in Range(registry.pending_bulbs) /\ connection_made(s))
             => /\ s \notin Range(registry'.pending_bulbs)
                /\ s \in Range(registry'.bulbs)]_vars

\* one discovered session has registered its first connection and is known
\* while a session for another identity is still pending
C10_Witness ==
  \E s, x \in Sessions :
     /\ s \in Range(registry.bulbs) /\ s \notin Range(registry.pending_bulbs)
     /\ bulb[s].registered
     /\ x \in Range(registry.pending_bulbs) /\ x \notin Range(registry.bulbs)
     /\ bulb[x].bulb_id # bulb[s].bulb_id

\* C11: new_bulb for an identity carried by a session of the known list or
\* of the pending list leaves both lists and every session as they are
C11_KnownIdentityIgnored ==
  [][\A id \in Identities :
       ((\E x \in Range(registry.bulbs) \cup Range(registry.pending_bulbs) :
            bulb[x].bulb_id = id)
        /\ new_bulb(id, AllSupport))
       => /\ registry'.bulbs = registry.bulbs
          /\ registry'.pending_bulbs = registry.pending_bulbs
          /\ bulb' = bulb]_vars

\* three discovery replies were delivered and one session exists: its
\* identity was announced again while it was pending or known
C11_Witness ==
  /\ registry.replies >= 3
  /\ Cardinality({s \in Sessions : bulb[s].exists}) = 1
  /\ Len(registry.bulbs) = 1

\* the command that carries the id of the session's sequence counter
LastQueued(b) == b.body[b.seq]

\* C12: set_power("on") with default arguments on a device that advertises
\* set_power returns true and appends one command with method set_power and
\* params ["on", "sudden", "100"]; when set_power is not advertised it
\* returns false and leaves the queue and the sequence counter as they are
C12_SetPowerOn ==
  [][\A hascb \in BOOLEAN :
       command(1, "set_power", DefaultArgs, hascb)
       => LET W == XiaomiBulb_command(World(1), "set_power", DefaultArgs, hascb)
              b == bulb[1]
          IN IF "set_power" \in b.support
             THEN /\ W.ret /\ W.exc = ""
                  /\ Len(bulb'[1].message_queue) = Len(b.message_queue) + 1
                  /\ SubSeq(bulb'[1].message_queue, 1, Len(b.message_queue))
                       = b.message_queue
                  /\ bulb'[1].message_queue[Len(b.message_queue) + 1].id = bulb'[1].seq
                  /\ LastQueued(bulb'[1])
                       = [method |-> "set_power",
                          params |-> <<JStr("on"), JStr("sudden"), JStr("100")>>]
             ELSE /\ ~W.ret /\ W.exc = ""
                  /\ bulb'[1].message_queue = b.message_queue
                  /\ bulb'[1].seq = b.seq]_vars

\* C13: a command method that returns does so with true exactly when the
\* call queued one command, and with false exactly when it queued nothing
\* (the queue has no limit)
C13_TrueIffQueued ==
  [][\A m \in CommandMethods, a \in Args, hascb \in BOOLEAN :
       LET W == XiaomiBulb_command(World(1), m, a, hascb)
           b == bulb[1]
       IN (command(1, m, a, hascb) /\ W.exc = "" /\ b.queue_limit = 0)
          => /\ W.ret <=> Len(bulb'[1].message_queue) = Len(b.message_queue) + 1
             /\ ~W.ret <=> bulb'[1].message_queue = b.message_queue]_vars

\* C14: every queued command carries a method name that is a member of the
\* advertised capability set
C14_QueuedIsAdvertised ==
  \A cid \in DOMAIN bulb[1].body : bulb[1].body[cid].method \in bulb[1].support

\* the command methods that test properties["power"] == "on"
PowerMethods == {m \in CommandMethods : CommandTable[m].power}

\* the power attribute of the session is "on"
PowerOn(b) == "power" \in DOMAIN b.properties /\ b.properties["power"] = "on"

\* C15: while the power attribute is not "on", a command method that
\* requires power-on returns false and leaves the queue, the sequence
\* counter and the correlation table as they are
C15_PowerOffRejects ==
  [][\A m \in PowerMethods, a \in Args, hascb \in BOOLEAN :
       LET W == XiaomiBulb_command(World(1), m, a, hascb)
           b == bulb[1]
       IN (command(1, m, a, hascb) /\ ~PowerOn(b))
          => /\ ~W.ret /\ W.exc = ""
             /\ bulb'[1].message_queue = b.message_queue
             /\ bulb'[1].seq = b.seq
             /\ bulb'[1].pending_reply = b.pending_reply]_vars

\* the drain tasks whose current command has the id c and is being
\* delivered through the pool: about to be written after the rate-limit
\* sleep, or written and awaiting its reply or its timeout
InFlight(b, c) ==
  {t \in TaskIds : /\ b.task[t].msg.id = c
                   /\ b.task[t].pc \in {"sleep_rate", "wait_reply"}}

\* C16: every id of the correlation table belongs to exactly one command in
\* flight; no entry outlives its command
C16_EntryIsInFlight ==
  \A c \in DOMAIN bulb[1].pending_reply :
     Cardinality(InFlight(bulb[1], c)) = 1

\* C17: the sequence counter lies in 0..255, and a command accepted into
\* the queue gets the id (previous id + 1) mod 256, the previous id being
\* the counter before the call, which is the id of the command queued last
C17_ConsecutiveIds ==
  /\ [](bulb[1].seq \in 0..(MESSAGE_WINDOW - 1))
  /\ [][\A m \in CommandMethods, a \in Args, hascb \in BOOLEAN :
          LET b == bulb[1]
              n == Len(b.message_queue)
          IN (command(1, m, a, hascb) /\ Len(bulb'[1].message_queue) = n + 1)
             => bulb'[1].message_queue[n + 1].id = (b.seq + 1) % MESSAGE_WINDOW]_vars

\* C18: a send_msg call made with policy random, limit N > 0 and N commands
\* queued leaves N commands queued: one entry of the queue with the new
\* command appended has been removed, the others are in the same order
C18_RandomEvictsOne ==
  [][\A hascb \in BOOLEAN, ma \in AttemptArgs :
       LET b == bulb[1]
           new == [id |-> (b.seq + 1) % MESSAGE_WINDOW,
                   cb |-> IF hascb THEN b.ncalls + 1 ELSE 0]
           all == Append(b.message_queue, new)
       IN (b.queue_policy = "random" /\ b.queue_limit > 0
           /\ Len(b.message_queue) = b.queue_limit /\ send_msg(1, hascb, ma))
          => /\ Len(bulb'[1].message_queue) = b.queue_limit
             /\ \E i \in 1..Len(all) : bulb'[1].message_queue = RemoveAt(all, i)]_vars

\* three commands were sent with limit 2 and policy random before the drain
\* task ran, and the second was the one removed
C18_Witness ==
  /\ bulb[1].queue_policy = "random" /\ bulb[1].queue_limit = 2
  /\ bulb[1].ncalls = 3 /\ bulb[1].seq = 3
  /\ \E t \in TaskIds : bulb[1].task[t].pc = "start"
  /\ Len(bulb[1].message_queue) = 2
  /\ bulb[1].message_queue[1].id = 1 /\ bulb[1].message_queue[2].id = 3

\* C19: a send_msg call made with policy adapt, the queue holding its limit
\* or more, on a device that advertises set_music: with the direct-stream
\* state inactive the state becomes pending (a new Future, one start
\* command scheduled); with the state pending or active the call starts no
\* second handoff and leaves the state as it is
C19_AdaptStartsHandoff ==
  [][\A hascb \in BOOLEAN :
       LET b == bulb[1]
       IN (/\ b.queue_policy = "adapt" /\ b.queue_limit > 0
           /\ Len(b.message_queue) >= b.queue_limit
           /\ Supports(b.support, "set_music")
           /\ send_msg(1, hascb, DEFAULT_ATTEMPTS))
          => IF b.musicm.k = "False"
             THEN /\ bulb'[1].musicm = [k |-> "Future", h |-> Len(b.hand) + 1]
                  /\ Len(bulb'[1].hand) = Len(b.hand) + 1
                  /\ bulb'[1].hand[Len(b.hand) + 1].fut = "pending"
                  /\ bulb'[1].soon = Append(b.soon, [p |-> 1, cb |-> 0])
             ELSE /\ bulb'[1].musicm = b.musicm
                  /\ bulb'[1].hand = b.hand
                  /\ bulb'[1].soon = b.soon]_vars

\* with limit 1, a second command was sent before the drain task ran: both
\* are queued and the state is pending on a Future nobody has resolved
C19_Witness ==
  /\ bulb[1].queue_policy = "adapt" /\ bulb[1].queue_limit = 1
  /\ bulb[1].ncalls = 2 /\ Len(bulb[1].message_queue) = 2
  /\ bulb[1].musicm.k = "Future" /\ Len(bulb[1].hand) = 1
  /\ bulb[1].hand[1].fut = "pending" /\ bulb[1].hand[1].autoclose = 5
  /\ bulb[1].soon = <<[p |-> 1, cb |-> 0]>>

\* direct-stream mode is active: the device has connected back, whether or
\* not the drain task has replaced the Future by its result yet
MusicActive(b) ==
  \/ b.musicm.k = "Conn"
  \/ b.musicm.k = "Future" /\ b.hand[b.musicm.h].fut = "result"

\* the entries a step appended to the write log
NewWrites(b, c) == {c.wlog[i] : i \in (Len(b.wlog) + 1)..Len(c.wlog)}

\* C20: the loss of the inbound connection while the mode is active leaves
\* the direct-stream state inactive; and a command the drain task pops with
\* the state inactive after such a loss takes the pooled path: its id and
\* callback are put in pending_reply, nothing is written to an inbound
\* connection, and the task writes it to a pooled connection in this step,
\* after the rate-limit sleep, or aborts for want of a usable connection
C20_LossFallsBackToPool ==
  /\ [][\A h \in 1..MaxHandoffs :
          (MusicActive(bulb[1]) /\ music_connection_lost(1, h))
             => bulb'[1].musicm.k = "False"]_vars
  /\ [][\A t \in TaskIds :
          LET b == bulb[1]
              f == bulb'[1].task[t]
          IN (/\ \E h \in 1..Len(b.hand) : b.hand[h].conn = "closed"
              /\ b.musicm.k = "False" /\ bulb'[1].musicm.k = "False"
              /\ f.msg # NoMsg /\ f.msg # b.task[t].msg)
             => /\ f.msg.id \in DOMAIN bulb'[1].pending_reply
                /\ bulb'[1].pending_reply[f.msg.id].cb = f.msg.cb
                /\ \A w \in NewWrites(b, bulb'[1]) : w.via = "pool" /\ w.id = f.msg.id
                /\ f.pc \in {"wait_reply", "sleep_rate", "crashed"}
                /\ f.pc = "wait_reply" => NewWrites(b, bulb'[1]) # {}]_vars

\* a first command went out on the inbound connection, the connection was
\* lost, and the command sent after the loss was written to the pooled
\* connection and awaits its reply
C20_Witness ==
  LET b == bulb[1]
  IN /\ b.musicm.k = "False" /\ Len(b.hand) = 1 /\ b.hand[1].conn = "closed"
     /\ \E i, j \in 1..Len(b.wlog) :
           /\ i < j /\ b.wlog[i].via = "music" /\ b.wlog[j].via = "pool"
           /\ b.wlog[j].id \in DOMAIN b.pending_reply
           /\ \E t \in TaskIds : /\ b.task[t].pc = "wait_reply"
                                 /\ b.task[t].msg.id = b.wlog[j].id

\* C21: set_music("stop") with the direct-stream state pending or active
\* returns true, schedules one stop command that bypasses the queue, closes
\* the inbound connection when there is one (cancels the Future when there
\* is none yet) and leaves the state inactive; the scheduled command is
\* written on the first pooled connection; with the state inactive the
\* call returns false and changes nothing
C21_StopLeavesMode ==
  /\ [](\A delay \in {0, 5} :
          LET W == XiaomiBulb_set_music(World(1), "stop", delay, 0)
          IN bulb[1].musicm.k = "False"
             => ~W.ret /\ W.self = bulb[1] /\ W.reg = registry)
  /\ [][\A delay \in {0, 5} :
          LET b == bulb[1]
              h == b.musicm.h
              W == XiaomiBulb_set_music(World(1), "stop", delay, 0)
          IN (b.musicm.k # "False" /\ set_music(1, "stop", delay, 0))
             => /\ W.ret
                /\ bulb'[1].soon = Append(b.soon, [p |-> 0, cb |-> 0])
                /\ bulb'[1].message_queue = b.message_queue
                /\ bulb'[1].wlog = b.wlog
                /\ bulb'[1].musicm.k = "False"
                /\ b.hand[h].conn = "open" => bulb'[1].hand[h].conn = "closing"
                /\ b.hand[h].fut = "pending" => bulb'[1].hand[h].fut = "cancelled"]_vars
  /\ [][LET b == bulb[1]
        IN (b.soon # <<>> /\ Len(b.transports) > 0 /\ send_msg_noqueue(1))
           => /\ bulb'[1].wlog = Append(b.wlog, [id |-> bulb'[1].seq, conn |-> b.transports[1],
                                                 via |-> "noqueue", n |-> Len(b.transports),
                                                 at |-> b.now])
              /\ bulb'[1].message_queue = b.message_queue
              /\ bulb'[1].soon = Tail(b.soon)]_vars

\* the mode was started and, with the device connected back, stopped: the
\* start and the stop command were written on the pooled connection, the
\* inbound connection is being closed and the state is inactive
C21_Witness ==
  LET b == bulb[1]
  IN /\ b.musicm.k = "False" /\ b.soon = <<>>
     /\ Len(b.hand) = 1 /\ b.hand[1].fut = "result" /\ b.hand[1].conn = "closing"
     /\ Cardinality({i \in 1..Len(b.wlog) : b.wlog[i].via = "noqueue"}) = 2

\* the state is pending on an unresolved Future, n commands have been
\* enqueued so far, and nothing is queued or held by a drain task
PendingQuiet(n) ==
  LET b == bulb[1]
  IN /\ b.musicm.k = "Future" /\ b.hand[b.musicm.h].fut = "pending"
     /\ b.ncalls = n /\ b.message_queue = <<>> /\ LiveTasks(1) = {}

\* C22: from a pending direct-stream state with no command queued, the
\* state becomes inactive unless a further command is enqueued
C22_PendingTearsDown ==
  \A n \in 0..MaxMusicCmds :
     PendingQuiet(n) ~> (bulb[1].musicm.k = "False" \/ bulb[1].ncalls > n)

\* C23: in the state cleanup leaves, no connection of the session is open
\* and no drain task is live
C23_CleanupClosesAll ==
  [][cleanup(1) => bulb'[1].conns = {} /\ LiveTasks(1)' = {}]_vars

\* the lines of a datagram that hold a colon
ColonLines(data) ==
  {l \in Range(SplitLines(data)) : \E i \in 1..Len(l) : l[i] = 58}

\* C24: a datagram that decodes is passed to the handler once, as a map
\* whose keys are the lower-cased texts before the first colon of the lines
\* that hold a colon, the other lines adding nothing; a datagram that does
\* not decode is not passed to the handler; in either case no exception
\* leaves datagram_received and the listener is left as it was
C24_MalformedSkipped ==
  [][upnp'.received = upnp.received + 1
     => LET data == upnp'.last
        IN /\ upnp'.exc = ""
           /\ upnp'.clients = upnp.clients
           /\ upnp'.broadcast_cnt = upnp.broadcast_cnt
           /\ IF Decodable(data)
              THEN /\ Len(upnp'.handled) = Len(upnp.handled) + 1
                   /\ DOMAIN upnp'.handled[Len(upnp'.handled)]
                        = {Lower(SubSeq(l, 1, FirstColon(l) - 1)) : l \in ColonLines(data)}
              ELSE upnp'.handled = upnp.handled]_vars

\* C25: when the wait of the last attempt of a command times out and the
\* connection it takes away is the only one registered, the session is
\* unregistered, the drain task ends with is_sending false, and what is
\* queued stays queued: nothing is written, and the only callback invoked
\* is the failure of the command that timed out
C25_LastConnectionStopsDrain ==
  [][\A t \in TaskIds :
       LET b == bulb[1]
           f == b.task[t]
       IN (/\ f.pc = "wait_reply" /\ f.attempts >= f.max_attempts
           /\ Len(b.transports) = 1 /\ f.myidx = 0
           /\ try_sending_timeout(1, t))
          => /\ bulb'[1].transports = <<>> /\ ~bulb'[1].registered
             /\ ~bulb'[1].is_sending /\ bulb'[1].task[t] = IdleFrame
             /\ bulb'[1].message_queue = b.message_queue
             /\ bulb'[1].wlog = b.wlog
             /\ f.msg.id \notin DOMAIN bulb'[1].pending_reply
             /\ \A i \in (Len(b.cblog) + 1)..Len(bulb'[1].cblog) :
                   bulb'[1].cblog[i].id = f.msg.id /\ bulb'[1].cblog[i].res = "fail"]_vars

\* the first command timed out on the only connection while a second one
\* was queued: the session is unregistered, no task is live, and the
\* second command is still queued, unwritten and unresolved
C25_Witness ==
  LET b == bulb[1]
  IN /\ b.activated /\ b.transports = <<>> /\ ~b.registered /\ ~b.is_sending
     /\ LiveTasks(1) = {}
     /\ Len(b.message_queue) = 1 /\ b.message_queue[1].id = 2
     /\ Len(b.cblog) = 1 /\ b.cblog[1].id = 1 /\ b.cblog[1].res = "fail"
     /\ \A i \in 1..Len(b.wlog) : b.wlog[i].id = 1

\* the commands a step takes out of the queue or out of the frame of a task
\* woken from the wait for the Future
Popped(b, t) ==
  Range(b.message_queue)
    \cup (IF b.task[t].pc = "wait_music" THEN {b.task[t].msg} ELSE {})

\* C26: a step of the drain task that ends in active direct-stream mode
\* with the task asleep after its writes has written each command it took,
\* once, on the inbound connection and on no pooled connection, has
\* invoked the callback of each with the synthesized success carrying its
\* id, once, and has added no entry to pending_reply
C26_ActiveWritesToStream ==
  [][\A t \in TaskIds :
       LET b == bulb[1]
           c == bulb'[1]
           new == [i \in 1..(Len(c.wlog) - Len(b.wlog)) |-> c.wlog[Len(b.wlog) + i]]
           cbs == [i \in 1..(Len(c.cblog) - Len(b.cblog)) |-> c.cblog[Len(b.cblog) + i]]
       IN (/\ \/ try_sending_start(1, t) \/ try_sending_resume(1, t)
              \/ try_sending_replied(1, t) \/ try_sending_timeout(1, t)
              \/ try_sending_music(1, t)
           /\ c.task[t].pc = "sleep_music" /\ c.musicm.k = "Conn")
          => /\ \A i \in 1..Len(new) : new[i].via = "music" /\ new[i].conn = c.musicm.h
             /\ \A m \in Popped(b, t) :
                   /\ Cardinality({i \in 1..Len(new) : new[i].id = m.id}) = 1
                   /\ Cardinality({i \in 1..Len(cbs) : cbs[i].id = m.id}) = 1
                   /\ m.id \notin DOMAIN c.pending_reply \ DOMAIN b.pending_reply
             /\ \A i \in 1..Len(cbs) :
                   /\ cbs[i].res = "ok"
                   /\ \E m \in Popped(b, t) : m.id = cbs[i].id /\ m.cb = cbs[i].cb
             /\ Len(new) = Cardinality(Popped(b, t))
             /\ c.message_queue = <<>>
             /\ DOMAIN c.pending_reply \subseteq DOMAIN b.pending_reply]_vars

\* in active mode two commands, the second sent with a callback, went out
\* on the inbound connection and were resolved by the synthesized reply
C26_Witness ==
  LET b == bulb[1]
  IN /\ b.musicm.k = "Conn"
     /\ \E i, j \in 1..Len(b.wlog) :
           /\ i < j /\ b.wlog[i].via = "music" /\ b.wlog[j].via = "music"
           /\ b.wlog[i].id # b.wlog[j].id
     /\ \E i \in 1..Len(b.cblog) : b.cblog[i].res = "ok" /\ b.cblog[i].cb # 0
     /\ \A i \in 1..Len(b.wlog) : b.wlog[i].via # "pool"
     /\ b.pending_reply = <<>>

\* the entries self.queue[0-limit:] keeps: the most recent limit entries,
\* everything when the limit is 0 (unlimited)
Kept(q, limit) ==
  IF limit = 0 \/ limit >= Len(q) THEN q
  ELSE [i \in 1..limit |-> q[Len(q) - limit + i]]

\* C27: when the bounded wait of the drain task for the inbound connection
\* times out, the direct-stream state becomes inactive and the queue is cut
\* to its most recent entries, at most the limit of them; the task goes on
\* with the oldest entry kept, by the pooled path (its id and callback are
\* put in pending_reply, nothing is written to an inbound connection, and
\* it is written to a pooled connection in this step or after the
\* rate-limit sleep, or the task aborts for want of a usable connection),
\* and finishes when nothing is kept
C27_TimeoutTrimsAndPools ==
  [][\A t \in TaskIds :
       LET b == bulb[1]
           c == bulb'[1]
           f == c.task[t]
           kept == Kept(b.message_queue, b.queue_limit)
       IN try_sending_music_timeout(1, t)
          => /\ c.musicm.k = "False"
             /\ b.queue_limit > 0 => Len(kept) <= b.queue_limit
             /\ \A w \in NewWrites(b, c) : w.via = "pool"
             /\ IF kept = <<>>
                THEN c.message_queue = <<>> /\ f.pc = "idle" /\ ~c.is_sending
                ELSE /\ f.msg = Head(kept)
                     /\ c.message_queue = Tail(kept)
                     /\ f.msg.id \in DOMAIN c.pending_reply
                     /\ c.pending_reply[f.msg.id].cb = f.msg.cb
                     /\ \A w \in NewWrites(b, c) : w.id = f.msg.id
                     /\ f.pc \in {"wait_reply", "sleep_rate", "crashed"}
                     /\ f.pc = "wait_reply" => NewWrites(b, c) # {}]_vars

\* three commands were queued with limit 1; the wait timed out, the queue
\* was cut to the last command, which was written to the pooled connection
\* and awaits its reply, while the popped command and the one cut from the
\* queue were never written
C27_Witness ==
  LET b == bulb[1]
  IN /\ b.musicm.k = "False" /\ b.queue_limit = 1
     /\ Len(b.hand) = 1 /\ b.hand[1].fut = "cancelled"
     /\ b.message_queue = <<>>
     /\ \E t \in TaskIds :
           /\ b.task[t].pc = "wait_reply"
           /\ \E i \in 1..Len(b.wlog) :
                 b.wlog[i].via = "pool" /\ b.wlog[i].id = b.task[t].msg.id
           /\ \E id1, id2 \in 1..b.seq :
                 /\ id1 < id2 /\ id2 < b.task[t].msg.id
                 /\ \A i \in 1..Len(b.wlog) : b.wlog[i].id \notin {id1, id2}

\* the writes on pooled connection c, in the order they were made
PoolWrites(b, c) ==
  {i \in 1..Len(b.wlog) : b.wlog[i].conn = c /\ b.wlog[i].via # "music"}

\* C28: two writes on the same pooled connection, whether made by the
\* drain task (first attempts and retries) or by send_msg_noqueue, are at
\* least 1 unit of time apart
C28_WritesSpaced ==
  LET b == bulb[1]
  IN \A c \in 1..b.nconn :
        \A i, j \in PoolWrites(b, c) :
           i < j => b.wlog[j].at - b.wlog[i].at >= 1

\* the same for the writes of the drain task alone
C28_DrainWritesSpaced ==
  LET b == bulb[1]
  IN \A c \in 1..b.nconn :
        \A i, j \in PoolWrites(b, c) :
           (i < j /\ b.wlog[i].via = "pool" /\ b.wlog[j].via = "pool")
              => b.wlog[j].at - b.wlog[i].at >= 1

\* C29: a props notification whose params is an object stores the value of
\* every name it carries that is in PROPERTIES, keeps the value of every
\* other attribute, adds no other name, and calls default_callb once; the
\* queue, pending_reply and the rest of the session are as before
C29_PropsMerged ==
  [][\A note \in Notes :
       LET b == bulb[1]
           c == bulb'[1]
           carried == (DOMAIN note.params) \cap PROPERTIES
       IN (notification(1, note) /\ note.method = "props" /\ note.isdict)
          => /\ DOMAIN c.properties = (DOMAIN b.properties) \cup carried
             /\ \A x \in carried : c.properties[x] = note.params[x]
             /\ \A x \in (DOMAIN b.properties) \ carried :
                   c.properties[x] = b.properties[x]
             /\ DOMAIN c.properties \subseteq PROPERTIES
             /\ c.ndefault = b.ndefault + 1
             /\ c.message_queue = b.message_queue
             /\ c.pending_reply = b.pending_reply
             /\ c = [b EXCEPT !.properties = c.properties,
                              !.ndefault = c.ndefault,
                              !.notes = c.notes]]_vars

\* with a command queued and another awaiting its reply, a notification
\* carrying power, bright and an unknown name changed the power attribute
\* given by the headers, added bright and dropped the unknown name
C29_Witness ==
  LET b == bulb[1]
  IN /\ Len(b.notes) = 1 /\ b.ndefault = 1
     /\ b.notes[1].method = "props"
     /\ DOMAIN b.notes[1].params = NoteNames
     /\ b.notes[1].params["bright"] = "10"
     /\ DOMAIN b.properties = {"power", "bright"}
     /\ b.properties["power"] = "off" /\ b.properties["bright"] = "10"
     /\ b.message_queue # <<>> /\ DOMAIN b.pending_reply # {}

\* the time for which the inbound connection of handoff h has not been
\* written
Idle(b, h) == b.now - b.hand[h].last_sent

\* the direct-stream mode is active on the inbound connection of handoff h,
\* which has a watchdog
Watched(b, h) ==
  /\ h \in 1..Len(b.hand) /\ MusicActive(b) /\ b.musicm.h = h
  /\ b.hand[h].conn = "open" /\ b.hand[h].autoclose > 0

\* C30: with the mode active and an idle period p > 0, a poll of the
\* watchdog closes the inbound connection when it has not been written for
\* more than p and never when it was written less than p ago; and a
\* connection left unwritten for more than p is closed and the
\* direct-stream state becomes inactive
C30_WatchdogClosesIdle ==
  /\ [][\A h \in 1..MaxHandoffs :
          LET b == bulb[1]
              closes == bulb'[1].hand[h].conn = "closing"
          IN (Watched(b, h) /\ autoclose_me(1, h))
             => /\ Idle(b, h) > b.hand[h].autoclose => closes
                /\ closes => Idle(b, h) >= b.hand[h].autoclose]_vars
  /\ [](\A h \in 1..MaxHandoffs :
          Watched(bulb[1], h) => bulb[1].hand[h].watch)
  /\ \A h \in 1..MaxHandoffs :
        (Watched(bulb[1], h) /\ Idle(bulb[1], h) > bulb[1].hand[h].autoclose)
           ~> (\/ bulb[1].musicm.k = "False"
               \/ Idle(bulb[1], h) <= bulb[1].hand[h].autoclose)

\* a command was written on the inbound connection at time 1, so that the
\* watchdog let the connection open at time 2 and closed it at time 3
C30_Witness ==
  LET b == bulb[1]
  IN /\ b.now = 3 /\ b.musicm = [k |-> "Conn", h |-> 1]
     /\ b.hand[1].conn = "closing" /\ ~b.hand[1].watch
     /\ b.hand[1].autoclose = 1 /\ b.hand[1].last_sent = 1
     /\ b.hand[1].next = 3
     /\ \E i \in 1..Len(b.wlog) : b.wlog[i].via = "music" /\ b.wlog[i].at = 1

\* the last k entries of q in their order
LastEntries(q, k) == [i \in 1..k |-> q[Len(q) - k + i]]

\* C31: for every queue content and every n >= 0, trim(n) leaves the
\* min(n, length) entries put last, in their order
C31_TrimKeepsLast ==
  \A n \in 0..MaxTrim :
     LET q == bulb[1].message_queue
     IN Queue_trim(q, n) = LastEntries(q, Min2(n, Len(q)))

\* the same for every n >= 1
C31_TrimKeepsLastPositive ==
  \A n \in 1..MaxTrim :
     LET q == bulb[1].message_queue
     IN Queue_trim(q, n) = LastEntries(q, Min2(n, Len(q)))

\* C32: with a limit N > 0 configured, the queue holds at most N entries
\* when a send_msg call returns, whatever the policy
C32_QueueWithinLimit ==
  [][\A hascb \in BOOLEAN, ma \in AttemptArgs :
       (send_msg(1, hascb, ma) /\ bulb[1].queue_limit > 0)
          => Len(bulb'[1].message_queue) <= bulb[1].queue_limit]_vars

\* the same for the policies drop, head and random and a queue that is
\* within the limit when the call is made
C32_EvictingPoliciesWithinLimit ==
  [][\A hascb \in BOOLEAN, ma \in AttemptArgs :
       (/\ send_msg(1, hascb, ma) /\ bulb[1].queue_limit > 0
        /\ bulb[1].queue_policy # "adapt"
        /\ Len(bulb[1].message_queue) <= bulb[1].queue_limit)
          => Len(bulb'[1].message_queue) <= bulb[1].queue_limit]_vars

\* C33: the drain task never ends by an exception raised where it selects
\* a connection: neither the modulo by the length of an empty list nor an
\* index past the end of the list
C33_IndexInRange ==
  \A t \in TaskIds : bulb[1].task[t].pc # "crashed"

\* C34: is_sending is true exactly when a drain task is live
C34_FlagIffLiveTask ==
  bulb[1].is_sending <=> LiveTasks(1) # {}

\* the same in the states where no drain task ended by an exception
C34_FlagIffLiveTaskNoCrash ==
  (\A t \in TaskIds : bulb[1].task[t].pc # "crashed")
     => (bulb[1].is_sending <=> LiveTasks(1) # {})

\* the command with this id is in the queue
Queued(b, id) == \E i \in 1..Len(b.message_queue) : b.message_queue[i].id = id

\* C35: a queued command leaves the queue, popped by the drain task or
\* evicted, unless the session comes to have no registered connection
C35_QueuedIsPopped ==
  \A id \in 1..MaxCmds :
     Queued(bulb[1], id)
        ~> (~Queued(bulb[1], id) \/ Len(bulb[1].transports) = 0)

\* the same unless, also, a drain task ended by an exception or a
\* connection was removed from the list
C35_QueuedIsPoppedStablePool ==
  \A id \in 1..MaxCmds :
     Queued(bulb[1], id)
        ~> (\/ ~Queued(bulb[1], id)
            \/ Len(bulb[1].transports) < bulb[1].nconn
            \/ Len(bulb[1].transports) = 0
            \/ \E t \in TaskIds : bulb[1].task[t].pc = "crashed")

\* C36: when the drain task lets go of a command that was queued with a
\* callback, the callback has been called exactly once for it (with the
\* reply, the synthesized reply or None)
C36_PoppedIsResolved ==
  [][\A t \in TaskIds :
       LET m == bulb[1].task[t].msg
       IN (m.cb # 0 /\ bulb'[1].task[t].msg # m)
          => Cardinality(Resolutions(bulb'[1], m.id)) = 1]_vars

\* the command was given up after its last attempt: its callback got None
Failed(b, id) == \E i \in 1..Len(b.cblog) : b.cblog[i].id = id /\ b.cblog[i].res = "fail"

\* C37: a command is written at most as many times as the max_attempts of
\* the send_msg call that queued it says, and exactly that many times when
\* it is given up
C37_OwnAttempts ==
  LET b == bulb[1]
  IN \A id \in 1..Len(b.asked) :
        /\ Cardinality(WritesOf(b, id)) <= b.asked[id]
        /\ Failed(b, id) => Cardinality(WritesOf(b, id)) = b.asked[id]

\* the same for the command whose call started the drain task
C37_FirstCallAttempts ==
  LET b == bulb[1]
  IN b.asked # <<>>
     => /\ Cardinality(WritesOf(b, 1)) <= b.asked[1]
        /\ Failed(b, 1) => Cardinality(WritesOf(b, 1)) = b.asked[1]

\* C38: the loss of an inbound connection that is not the one of the
\* current handoff leaves the direct-stream state, its Future and its
\* connection as they are
C38_OldLossKeepsState ==
  [][\A h \in 1..MaxRestarts :
       LET m == bulb[1].musicm
       IN (music_connection_lost(1, h) /\ m.k # "False" /\ m.h # h)
          => /\ bulb'[1].musicm = m
             /\ bulb'[1].hand[m.h] = bulb[1].hand[m.h]]_vars

\* the loss of the connection of the current handoff does clear the state
C38_CurrentLossClearsState ==
  [][\A h \in 1..MaxRestarts :
       LET m == bulb[1].musicm
       IN (music_connection_lost(1, h) /\ m.k # "False" /\ m.h = h)
          => bulb'[1].musicm.k = "False"]_vars

\* C39: the known list holds at most one session per device identity
C39_OneSessionPerIdentity ==
  \A i, j \in 1..Len(registry.bulbs) :
     bulb[registry.bulbs[i]].bulb_id = bulb[registry.bulbs[j]].bulb_id => i = j

\* the same for the sessions of the known list and of the pending list,
\* as long as no session has lost a connection
C39_OneSessionPerIdentityNoLoss ==
  (\A s \in Sessions : Cardinality(bulb[s].conns) = bulb[s].nconn)
     => \A x, y \in Range(registry.bulbs) \cup Range(registry.pending_bulbs) :
           bulb[x].bulb_id = bulb[y].bulb_id => x = y

====
